---- MODULE Spec2Model ----
(***************************************************************************)
(* A model of the carpool assignment tool: the Parser's segmentation and   *)
(* time clustering (givetochat1_6.py), the cab bin-packing and cab-id      *)
(* allocation (cabpool.py), and the driver/passenger round-robin with the  *)
(* to-support backfill (go_live_carpooling.py, team_trip_carpooling.py).   *)
(***************************************************************************)
EXTENDS Integers, Sequences, FiniteSets, TLC

VARIABLES
    pc,          \* position of the running operation
    people,      \* argument of _assign_with_app_preference
    cab_units,   \* its return value
    travelers,   \* arguments of Parser._cluster_by_time
    attribute,
    threshold,
    clusters,    \* its return value
    mode,        \* the backend that is running: cabpool, team trip or go-live
    runs,        \* backend invocations started in this process
    next_cab,    \* cabpool's module-level counters _next_*_cab
    all_people,  \* Parser.process_excel's people
    ride_hotel,  \* the groupings Parser.ride_to_* returned
    ride_support,
    ride_airport,
    hotel_assignments,   \* what the assignment functions returned
    support_assignments,
    airport_assignments,
    unassigned_support,  \* go-live's pool of travelers without a seat
    sheet,       \* the rows written to the workbook
    no_time_groups,  \* ride_to_airport's local groups_noTime when it returns
    cab_groups,      \* arguments of a direct _assign_cabs call
    cab_id_type,
    max_per_cab,
    cab_returned,    \* what that call returned, and whether it raised
    rr_drivers,      \* one cohort inside the round-robin: its drivers,
    rr_passengers,   \* its passenger candidates,
    rr_state,        \* driver_slots and driver_index so far,
    rr_next,         \* and the number of passengers already processed
    Parser,          \* the functions bound to Parser.process_excel and
                     \* Parser._cluster_by_time in this process
    calls            \* the invocations of main.process_carpool_assignment,
                     \* one per thread: position, arguments and locals

packVars == <<people, cab_units>>
clusterVars == <<travelers, attribute, threshold, clusters>>
rideVars == <<ride_hotel, ride_support, ride_airport>>
assignVars == <<hotel_assignments, support_assignments, airport_assignments,
                unassigned_support, sheet>>
runVars == <<mode, runs, next_cab, all_people, rideVars, assignVars>>
cabVars == <<cab_groups, cab_id_type, max_per_cab, cab_returned>>
seatVars == <<rr_drivers, rr_passengers, rr_state, rr_next>>
mainVars == <<Parser, calls>>
callVars == <<no_time_groups, cabVars, seatVars, mainVars>>
vars == <<pc, packVars, clusterVars, runVars, callVars>>

----------------------------------------------------------------------------
(* Bounds of the model *)

\* longest list handed to _assign_with_app_preference
MaxPeople == 6

\* longest list handed to Parser._cluster_by_time
MaxTravelers == 4

\* largest roster of a cabpool run, and the number of runs in one process
MaxRoster == 4
MaxRuns == 2

\* affiliation tags ("App" column) used for the bin-packing inputs
PackApps == {"W", "X", "Y", "Z"}

\* traveler names, unique per roster position
Names == <<"n1", "n2", "n3", "n4", "n5", "n6", "n7", "n8", "n9">>

----------------------------------------------------------------------------
(* Generic list helpers (Python list semantics) *)

Range(s) == {s[i] : i \in 1..Len(s)}

\* s[a:b] with 0-based Python slice bounds, clipped to the list
Slice(s, a, b) == SubSeq(s, a + 1, IF b < Len(s) THEN b ELSE Len(s))

RECURSIVE Flatten(_)
Flatten(ss) == IF ss = <<>> THEN <<>> ELSE Head(ss) \o Flatten(Tail(ss))

Min(a, b) == IF a <= b THEN a ELSE b

----------------------------------------------------------------------------
(* cabpool._assign_with_app_preference *)

\* max riders per cab
Capacity == 3

\* keys of app_buckets in first-insertion order (defaultdict keeps it)
RECURSIVE BucketOrder(_, _)
BucketOrder(ps, seen) ==
    IF ps = <<>> THEN <<>>
    ELSE IF Head(ps).app \in seen THEN BucketOrder(Tail(ps), seen)
    ELSE <<Head(ps).app>> \o BucketOrder(Tail(ps), seen \cup {Head(ps).app})

\* step 1: app_buckets[p.app].append(p)
app_buckets(ps) ==
    LET order == BucketOrder(ps, {})
    IN  [i \in 1..Len(order) |-> SelectSeq(ps, LAMBDA p : p.app = order[i])]

\* [bucket.pop() for _ in range(k)]: the last k elements, last one first
PopLast(bucket, k) == [i \in 1..k |-> bucket[Len(bucket) + 1 - i]]

\* mutant: the loop guard written len(bucket) > 3
RECURSIVE ExtractTriosStrict(_)
ExtractTriosStrict(bucket) ==
    IF Len(bucket) > 3
    THEN LET r == ExtractTriosStrict(SubSeq(bucket, 1, Len(bucket) - 3))
         IN  [trios |-> <<PopLast(bucket, 3)>> \o r.trios, rest |-> r.rest]
    ELSE [trios |-> <<>>, rest |-> IF Len(bucket) = 3 THEN <<>> ELSE bucket]

\* step 2, the while loop: while len(bucket) >= 3: trio = [pop, pop, pop]
RECURSIVE ExtractTrios(_)
ExtractTrios(bucket) ==
    IF Len(bucket) >= 3
    THEN LET r == ExtractTrios(SubSeq(bucket, 1, Len(bucket) - 3))
         IN  [trios |-> <<PopLast(bucket, 3)>> \o r.trios, rest |-> r.rest]
    ELSE [trios |-> <<>>, rest |-> bucket]

\* step 2 over all buckets: cab_units, leftovers_two, leftovers_one
RECURSIVE ExtractBuckets(_, _)
ExtractBuckets(buckets, acc) ==
    IF buckets = <<>> THEN acc
    ELSE LET r    == ExtractTrios(Head(buckets))
             two  == IF Len(r.rest) = 2 THEN <<PopLast(r.rest, 2)>> ELSE <<>>
             one  == IF Len(r.rest) = 1 THEN <<r.rest[1]>> ELSE <<>>
         IN  ExtractBuckets(Tail(buckets),
                 [cab_units     |-> acc.cab_units \o r.trios,
                  leftovers_two |-> acc.leftovers_two \o two,
                  leftovers_one |-> acc.leftovers_one \o one])

\* list.remove(x): drops the first element equal to x
RECURSIVE Remove(_, _)
Remove(s, x) ==
    IF s = <<>> THEN <<>>
    ELSE IF Head(s) = x THEN Tail(s) ELSE <<Head(s)>> \o Remove(Tail(s), x)

\* mutant: the paired 2-person leftover is not removed from leftovers_two
RECURSIVE PairLeftoversKeep(_, _)
PairLeftoversKeep(snapshot, st) ==
    IF snapshot = <<>> THEN st
    ELSE LET pair == Head(snapshot)
         IN  IF st.leftovers_one # <<>>
             THEN PairLeftoversKeep(Tail(snapshot),
                      [cab_units     |-> Append(st.cab_units,
                                            Append(pair, st.leftovers_one[Len(st.leftovers_one)])),
                       leftovers_two |-> st.leftovers_two,
                       leftovers_one |-> SubSeq(st.leftovers_one, 1, Len(st.leftovers_one) - 1)])
             ELSE PairLeftoversKeep(Tail(snapshot), st)

\* step 3, first loop: for pair in leftovers_two[:]: if leftovers_one: ...
RECURSIVE PairLeftovers(_, _)
PairLeftovers(snapshot, st) ==
    IF snapshot = <<>> THEN st
    ELSE LET pair == Head(snapshot)
         IN  IF st.leftovers_one # <<>>
             THEN PairLeftovers(Tail(snapshot),
                      [cab_units     |-> Append(st.cab_units,
                                            Append(pair, st.leftovers_one[Len(st.leftovers_one)])),
                       leftovers_two |-> Remove(st.leftovers_two, pair),
                       leftovers_one |-> SubSeq(st.leftovers_one, 1, Len(st.leftovers_one) - 1)])
             ELSE PairLeftovers(Tail(snapshot), st)

\* step 4 without the chunking: every remaining single becomes a group
ChunkSinglesAlone(leftovers_one, idx) ==
    [i \in 1..(Len(leftovers_one) - idx) |-> <<leftovers_one[idx + i]>>]

\* step 4: while idx < len(leftovers_one): chunk = leftovers_one[idx : idx + 3]
RECURSIVE ChunkSingles(_, _)
ChunkSingles(leftovers_one, idx) ==
    IF idx < Len(leftovers_one)
    THEN <<Slice(leftovers_one, idx, idx + 3)>> \o ChunkSingles(leftovers_one, idx + 3)
    ELSE <<>>

assign_with_app_preference(ps) ==
    IF Len(ps) = 0 THEN <<>>
    ELSE IF Len(ps) <= 3 THEN <<ps>>
    ELSE LET s2 == ExtractBuckets(app_buckets(ps),
                       [cab_units |-> <<>>, leftovers_two |-> <<>>, leftovers_one |-> <<>>])
             s3 == PairLeftovers(s2.leftovers_two, s2)
         IN  s3.cab_units \o s3.leftovers_two \o ChunkSingles(s3.leftovers_one, 0)

----------------------------------------------------------------------------
(* Values: strings, datetimes, spreadsheet cells *)

\* a missing spreadsheet cell (pandas NaN) in a text column
NaN == "<NaN>"

\* every text value of the model, in Python's string order (for list.sort)
StrOrder == <<"", "100", "200", "<NaN>", "CC", "FS", "Float Pool", "H1", "H1 ", "H1/H2",
              "H2",
              "ID", "IE", "L1", "L2", "LAX", "NoApp", "NoCity", "NoFlightNum",
              "NoHotel", "NoLocation", "ORD", "W", "X", "Y", "Z">>

Ord(str) == CHOOSE i \in 1..Len(StrOrder) : StrOrder[i] = str

\* str.strip()
Strip(str) == IF str = "H1 " THEN "H1" ELSE str

\* str.lower() of one word of a name
Lower(word) ==
    CASE word = "Emeritus" -> "emeritus"
      [] word = "Exemplar" -> "exemplar"
      [] OTHER -> word

\* a datetime: day number d and minute of the day t
DT(d, t) == [d |-> d, t |-> t]

\* datetime.min (0001-01-01 00:00)
datetime_min == DT(0, 0)

\* an attribute holding None instead of a datetime
NoneDT == DT(-1, -1)

\* time.min, and a Time entry holding None
time_min == 0
NoneTime == -1

\* datetime.today().date() on the day of the run
Today == 9

\* datetime.timestamp(), in minutes
Timestamp(dt) == dt.d * 1440 + dt.t

Abs(x) == IF x < 0 THEN -x ELSE x

\* tuple comparison of two sort keys (tuples of numbers of one length)
RECURSIVE LexLess(_, _)
LexLess(a, b) ==
    IF a = <<>> THEN FALSE
    ELSE Head(a) < Head(b) \/ (Head(a) = Head(b) /\ LexLess(Tail(a), Tail(b)))

\* list.sort(key=...): a stable sort; keys[i] is the key (a tuple of
\* numbers) of s[i]
SortBy(s, keys) ==
    LET Ins(order, i) ==
            LET k == Cardinality({j \in 1..Len(order) : ~LexLess(keys[i], keys[order[j]])})
            IN  SubSeq(order, 1, k) \o <<i>> \o SubSeq(order, k + 1, Len(order))
        F[n \in 0..Len(s)] == IF n = 0 THEN <<>> ELSE Ins(F[n - 1], n)
        order == F[Len(s)]
    IN  [j \in 1..Len(s) |-> s[order[j]]]

\* defaultdict(list)[key].append(p); the dict keeps insertion order
DictAppend(groups, key, p) ==
    IF \E i \in 1..Len(groups) : groups[i].key = key
    THEN [i \in 1..Len(groups) |->
             IF groups[i].key = key
             THEN [key |-> key, people |-> Append(groups[i].people, p)]
             ELSE groups[i]]
    ELSE Append(groups, [key |-> key, people |-> <<p>>])

\* dict[key] = value
DictSet(groups, key, value) ==
    IF \E i \in 1..Len(groups) : groups[i].key = key
    THEN [i \in 1..Len(groups) |->
             IF groups[i].key = key THEN [key |-> key, people |-> value] ELSE groups[i]]
    ELSE Append(groups, [key |-> key, people |-> value])

\* an f-string key: its text parts and its date / clock parts
Key(texts, numbers) == [s |-> texts, n |-> numbers]

----------------------------------------------------------------------------
(* givetochat1_6.Person *)

\* Person.safe_parse_datetime: a cell is NaN, or text in the format
\* '%Y-%m-%d %H:%M:%S' (fmt "ymd_hms") or any other text
safe_parse_datetime(date_str) ==
    IF date_str.kind # "str" THEN datetime_min
    ELSE IF date_str.fmt = "ymd_hms" THEN DT(date_str.d, date_str.t)
    ELSE datetime_min

NoFlight == [FlightNumber |-> "NoFlightNum", Time |-> time_min, City |-> "NoCity"]

\* Person.parse_flight_info: a cell is NaN, or text that the pattern
\* (\d+)@\s*([\d:]+)\s*([ap]?)\s*(.*)? matches (match = TRUE) with groups
\* num, hh:mm, ap, city, or text it does not match
parse_flight_info(flight_str) ==
    IF flight_str.kind # "str" THEN NoFlight
    ELSE IF flight_str.match
    THEN LET am_pm    == flight_str.ap
             \* strptime(f"{time_str}{am_pm}M", "%I:%M%p")
             valid    == /\ am_pm \in {"A", "P"}
                         /\ flight_str.hh \in 1..12
                         /\ flight_str.mm \in 0..59
             time_obj == IF valid
                         THEN ((flight_str.hh % 12) + (IF am_pm = "P" THEN 12 ELSE 0)) * 60
                              + flight_str.mm
                         ELSE time_min
         IN  [FlightNumber |-> flight_str.num,
              Time         |-> time_obj,
              City         |-> IF Strip(flight_str.city) # "" THEN Strip(flight_str.city)
                               ELSE "NoCity"]
    ELSE NoFlight

\* locations whose lower-cased text contains "float"
ContainsFloat(location) == location \in {"Float Pool"}

\* Person.__init__
Person(row) ==
    LET hotel    == IF row.Hotel = NaN THEN "NoHotel" ELSE row.Hotel
        app      == IF row.App = NaN THEN "NoApp" ELSE row.App
        role     == IF row.Role = NaN \/ Strip(row.Role) = "" THEN "CC" ELSE row.Role
        location == IF row.Location = NaN \/ Strip(row.Location) = ""
                    THEN "NoLocation" ELSE row.Location
        can_drive == row.RentalCar_etr = NaN \/ Strip(row.RentalCar_etr) = ""
        depart_date    == safe_parse_datetime(row.DepartDate)
        arrival_flight == parse_flight_info(row.ArrivalFlight)
        return_flight  == parse_flight_info(row.ReturnFlight)
    IN  [name             |-> row.Name,
         hotel            |-> hotel,
         app              |-> app,
         role             |-> role,
         location         |-> location,
         has_rental_car   |-> row.RentalCar = row.Name,
         begin_onsite     |-> safe_parse_datetime(row.BeginOnSite),
         end_onsite       |-> safe_parse_datetime(row.EndOnSite),
         depart_date      |-> depart_date,
         return_date      |-> safe_parse_datetime(row.ReturnDate),
         can_drive        |-> can_drive,
         given_rental_car |-> ContainsFloat(location) /\ can_drive,
         personal         |-> [Hotel   |-> Lower(Strip(row.RideToHotel)) = "personal",
                               Airport |-> Lower(Strip(row.RideToAirport)) = "personal"],
         arrival_flight   |-> arrival_flight,
         arrival_dt       |-> IF arrival_flight.Time # NoneTime
                              THEN DT(depart_date.d, arrival_flight.Time) ELSE NoneDT,
         return_flight    |-> return_flight,
         return_dt        |-> IF return_flight.Time # NoneTime
                              THEN DT(Today, return_flight.Time) ELSE NoneDT]

\* the separation test of ride_to_* and of go_live's special()
special(p) ==
    \/ p.app \in {"ID", "IE"}
    \/ \E i \in 1..Len(p.name) : Lower(p.name[i]) \in {"emeritus", "exemplar"}

----------------------------------------------------------------------------
(* givetochat1_6.Parser._cluster_by_time *)

\* float('inf')
Inf == 1000000000

\* getattr(p, attr, None)
GetAttr(p, attr) ==
    CASE attr = "arrival_dt" -> p.arrival_dt
      [] attr = "return_dt"  -> p.return_dt
      [] OTHER -> NoneDT

\* times_list: the timestamps of the members whose attribute is a datetime
times_list(cluster, attr) ==
    {Timestamp(GetAttr(cluster[i], attr)) :
        i \in {k \in 1..Len(cluster) : GetAttr(cluster[k], attr) # NoneDT}}

\* mutant: single linkage, the smallest pairwise difference
cluster_dist_min(c1, c2, attr) ==
    LET times1 == times_list(c1, attr)
        times2 == times_list(c2, attr)
        diffs  == {Abs(t1 - t2) : t1 \in times1, t2 \in times2}
    IN  IF times1 = {} \/ times2 = {} THEN Inf
        ELSE CHOOSE m \in diffs : \A x \in diffs : x >= m

\* cluster_dist: complete linkage, the largest pairwise difference
cluster_dist(c1, c2, attr) ==
    LET times1 == times_list(c1, attr)
        times2 == times_list(c2, attr)
        diffs  == {Abs(t1 - t2) : t1 \in times1, t2 \in times2}
    IN  IF times1 = {} \/ times2 = {} THEN Inf
        ELSE CHOOSE m \in diffs : \A x \in diffs : x <= m

\* slider values m for which (m / 60.0) * 3600 is below m * 60 in floating point
RoundsDown == {65, 130}

\* min_dist <= thresh, thresh = threshold_hours * 3600; a threshold is its
\* minutes and whether it was computed as minutes / 60.0 (main.py)
WithinThresh(min_dist, thr) ==
    IF thr.divided /\ thr.min \in RoundsDown
    THEN min_dist < thr.min
    ELSE min_dist <= thr.min

Hours(m) == [min |-> m, divided |-> FALSE]

\* the while loop: find the closest pair (first one on ties), merge it when
\* its distance is within the thr, stop otherwise
RECURSIVE MergeClusters(_, _, _)
MergeClusters(cls, attr, thr) ==
    LET pairs  == {q \in (1..Len(cls)) \X (1..Len(cls)) : q[1] < q[2]}
        d(q)   == cluster_dist(cls[q[1]], cls[q[2]], attr)
        finite == {q \in pairs : d(q) < Inf}
    IN  IF finite = {} THEN cls
        ELSE LET best == CHOOSE q \in finite :
                            \A r \in finite :
                                \/ d(q) < d(r)
                                \/ d(q) = d(r) /\ (q[1] < r[1] \/ (q[1] = r[1] /\ q[2] <= r[2]))
                 i == best[1]
                 j == best[2]
             IN  IF WithinThresh(d(best), thr)
                 THEN MergeClusters(
                          [k \in 1..Len(cls) - 1 |->
                              IF k = i THEN cls[i] \o cls[j]
                              ELSE IF k < j THEN cls[k] ELSE cls[k + 1]],
                          attr, thr)
                 ELSE cls

cluster_by_time(trav, attr, thr) ==
    MergeClusters([i \in 1..Len(trav) |-> <<trav[i]>>], attr, thr)

\* Parser._cluster_by_time as it is bound at the time of the call: the
\* original, or a patched_cluster of main.py, which replaces the threshold by
\* its slider value (minutes / 60.0) and calls the function it saved
RECURSIVE CallCluster(_, _, _, _)
CallCluster(cluster_func, trav, attr, thr) ==
    IF cluster_func.patched
    THEN CallCluster(cluster_func.orig, trav, attr,
             IF attr = "arrival_dt"
             THEN [min |-> cluster_func.hotel_window_min, divided |-> TRUE]
             ELSE IF attr = "return_dt"
             THEN [min |-> cluster_func.airport_window_min, divided |-> TRUE]
             ELSE thr)
    ELSE cluster_by_time(trav, attr, thr)

orig_cluster_func == [patched |-> FALSE]

----------------------------------------------------------------------------
(* givetochat1_6.Parser.ride_to_hotel, ride_to_support, ride_to_airport *)

\* for p in seq: groups[key].append(p); keys[i] is the key of seq[i]
AppendAll(groups, seq, keys) ==
    LET F[n \in 0..Len(seq)] ==
            IF n = 0 THEN groups ELSE DictAppend(F[n - 1], keys[n], seq[n])
    IN  F[Len(seq)]

\* strftime('%H:%M') of the earliest and of the latest datetime of a cluster,
\* 'Unknown' (-1) when no member has one
Unknown == -1

ClockSpan(cl, attr) ==
    LET having == {i \in 1..Len(cl) : GetAttr(cl[i], attr) # NoneDT}
        first  == CHOOSE i \in having :
                      \A k \in having : Timestamp(GetAttr(cl[i], attr)) <= Timestamp(GetAttr(cl[k], attr))
        last   == CHOOSE i \in having :
                      \A k \in having : Timestamp(GetAttr(cl[i], attr)) >= Timestamp(GetAttr(cl[k], attr))
    IN  IF having = {} THEN <<Unknown, Unknown>>
        ELSE <<GetAttr(cl[first], attr).t, GetAttr(cl[last], attr).t>>

\* for cl in clusters: named[f"{key} | {start}-{end}"] = cl
NameClusters(named, key, cls, attr) ==
    LET F[n \in 0..Len(cls)] ==
            IF n = 0 THEN named
            ELSE DictSet(F[n - 1], Key(key.s, key.n \o ClockSpan(cls[n], attr)), cls[n])
    IN  F[Len(cls)]

\* for key, group in groups.items(): cluster the group and name its clusters
ClusterGroups(groups, attr, thresh, cluster_func) ==
    LET F[n \in 0..Len(groups)] ==
            IF n = 0 THEN <<>>
            ELSE NameClusters(F[n - 1], groups[n].key,
                     CallCluster(cluster_func, groups[n].people, attr, thresh), attr)
    IN  F[Len(groups)]

\* sort key (p.hotel.strip(), p.depart_date)
HotelSortKey(p) == <<Ord(Strip(p.hotel)), Timestamp(p.depart_date)>>

\* f"{p.app} | {p.name}"
SpecialKey(p) == Key(<<p.app>> \o p.name, <<>>)

ride_to_hotel(all_ppl, thresh, cluster_func) ==
    LET use_flight_number == thresh.min = 0
        ppl       == SelectSeq(all_ppl, LAMBDA p : ~p.personal.Hotel)
        sorted    == SortBy(ppl, [i \in 1..Len(ppl) |-> HotelSortKey(ppl[i])])
        specials  == SelectSeq(sorted, special)
        remainder == SelectSeq(sorted, LAMBDA p : ~special(p))
        HotelKey(p) ==
            Key(<<Strip(p.hotel), p.arrival_flight.City>>
                    \o (IF use_flight_number THEN <<p.arrival_flight.FlightNumber>> ELSE <<>>),
                <<p.depart_date.d>>)
        depart_hotel_groups ==
            AppendAll(AppendAll(<<>>, specials,
                                [i \in 1..Len(specials) |-> SpecialKey(specials[i])]),
                      remainder, [i \in 1..Len(remainder) |-> HotelKey(remainder[i])])
    IN  ClusterGroups(depart_hotel_groups, "arrival_dt", thresh, cluster_func)

\* sort key (p.role, p.app, p.hotel, p.location, p.begin_onsite)
SupportSortKey(p) ==
    <<Ord(p.role), Ord(p.app), Ord(p.hotel), Ord(p.location), Timestamp(p.begin_onsite)>>

\* f"{role} | {hotel.strip()} | {location.strip()} | {begin} to {end}", with
\* the name in front for a special traveler
SupportKey(p) ==
    Key((IF special(p) THEN p.name ELSE <<>>)
            \o <<p.role, Strip(p.hotel), Strip(p.location)>>,
        <<p.begin_onsite.d, p.begin_onsite.t, p.end_onsite.d, p.end_onsite.t>>)

\* returns the groups; the argument list is sorted in place (sorted)
ride_to_support(ppl) ==
    LET sorted == SortBy(ppl, [i \in 1..Len(ppl) |-> SupportSortKey(ppl[i])])
    IN  [groups |-> AppendAll(<<>>, sorted, [i \in 1..Len(sorted) |-> SupportKey(sorted[i])]),
         sorted |-> sorted]

\* time(11, 0, 0)
cutoff == 660

ride_to_airport(all_ppl, thresh, cluster_func) ==
    LET use_flight_number == thresh.min = 0
        day_people == SelectSeq(SelectSeq(all_ppl, LAMBDA p : ~p.personal.Airport),
                                LAMBDA p : p.end_onsite.t >= cutoff)
        sorted     == SortBy(day_people,
                             [i \in 1..Len(day_people) |-> HotelSortKey(day_people[i])])
        specials   == SelectSeq(sorted, special)
        remainder  == SelectSeq(sorted, LAMBDA p : ~special(p))
        from_loc   == SelectSeq(remainder, LAMBDA p : p.end_onsite.d = p.return_date.d)
        from_hotel == SelectSeq(remainder, LAMBDA p : p.end_onsite.d # p.return_date.d)
        LocKey(p) ==
            Key(<<p.location, p.return_flight.City>>
                    \o (IF use_flight_number THEN <<p.return_flight.FlightNumber>> ELSE <<>>),
                <<p.end_onsite.d>>)
        HotelKey(p) == Key(<<p.hotel, p.return_flight.City>>, <<p.end_onsite.d>>)
        groups_noTime ==
            AppendAll(AppendAll(AppendAll(<<>>, specials,
                                          [i \in 1..Len(specials) |-> SpecialKey(specials[i])]),
                                from_loc, [i \in 1..Len(from_loc) |-> LocKey(from_loc[i])]),
                      from_hotel, [i \in 1..Len(from_hotel) |-> HotelKey(from_hotel[i])])
        night == SelectSeq(remainder, LAMBDA p : p.end_onsite.t >= cutoff)
    IN  [carpool_groups |-> ClusterGroups(groups_noTime, "return_dt", thresh, cluster_func),
         groups_noTime  |-> AppendAll(groups_noTime, night,
                                [i \in 1..Len(night) |->
                                    Key(<<"Potential Night Shift">>, <<>>)])]

----------------------------------------------------------------------------
(* cabpool._generate_airport_cab_id, _assign_cabs *)

Letters == <<"A", "B", "C", "D", "E", "F", "G", "H", "I", "J", "K", "L", "M",
             "N", "O", "P", "Q", "R", "S", "T", "U", "V", "W", "X", "Y", "Z">>

Digits == <<"0", "1", "2", "3", "4", "5", "6", "7", "8", "9">>

\* str(n), as a list of characters
RECURSIVE Decimal(_)
Decimal(n) ==
    IF n < 10 THEN <<Digits[n + 1]>> ELSE Decimal(n \div 10) \o <<Digits[(n % 10) + 1]>>

\* f"{n:0{width}d}"
ZeroPadded(n, width) ==
    LET text == Decimal(n)
    IN  IF Len(text) >= width THEN text
        ELSE [i \in 1..(width - Len(text)) |-> "0"] \o text

\* letter * length
generate_airport_cab_id(index) ==
    [i \in 1..((index \div 26) + 1) |-> Letters[(index % 26) + 1]]

\* the module-level counters _next_hotel_cab, _next_support_cab, _next_airport_cab
\* at import time
ImportedCounters == [hotel |-> 0, support |-> 0, airport |-> 0]

\* mutant: a 1-rider sub-cab is skipped only after its index was taken
IssueCabCounting(st, riders, id_type) ==
    IF st.raised THEN st
    ELSE IF id_type \notin {"hotel", "support", "airport"}
    THEN IF Len(riders) < 2 THEN st ELSE [st EXCEPT !.raised = TRUE]
    ELSE LET idx    == st.counters[id_type]
             cab_id == CASE id_type = "hotel"   -> ZeroPadded(idx + 1, 2)
                         [] id_type = "support" -> ZeroPadded(100 + idx, 3)
                         [] id_type = "airport" -> generate_airport_cab_id(idx)
         IN  [st EXCEPT !.counters[id_type] = idx + 1,
                        !.cab_map = IF Len(riders) < 2 THEN @
                                    ELSE Append(@, [cab_id |-> cab_id, riders |-> riders])]

\* the body of "for riders in sub_cabs"; st is the cab_map so far, the
\* counters, and whether ValueError was raised
IssueCab(st, riders, id_type) ==
    IF st.raised \/ Len(riders) < 2 THEN st
    ELSE IF id_type \notin {"hotel", "support", "airport"}
    THEN [st EXCEPT !.raised = TRUE]
    ELSE LET idx    == st.counters[id_type]
             cab_id == CASE id_type = "hotel"   -> ZeroPadded(idx + 1, 2)
                         [] id_type = "support" -> ZeroPadded(100 + idx, 3)
                         [] id_type = "airport" -> generate_airport_cab_id(idx)
         IN  [st EXCEPT !.counters[id_type] = idx + 1,
                        !.cab_map = Append(@, [cab_id |-> cab_id, riders |-> riders])]

\* "for riders in sub_cabs" of one group, from the counters of st
IssueCabs(st, sub_cabs, id_type) ==
    LET F[n \in 0..Len(sub_cabs)] ==
            IF n = 0 THEN [cab_map |-> <<>>, counters |-> st.counters, raised |-> st.raised]
            ELSE IssueCab(F[n - 1], sub_cabs[n], id_type)
    IN  F[Len(sub_cabs)]

\* assignments[key] = cab_map, unless ValueError was raised
StoreCabMap(st, key, r) ==
    [assignments |-> IF st.raised \/ r.raised THEN st.assignments
                     ELSE Append(st.assignments, [key |-> key, cab_map |-> r.cab_map]),
     counters    |-> r.counters,
     raised      |-> r.raised]

\* one group of _assign_cabs: pack it and issue an id per sub-cab
AssignGroup(st, group, id_type) ==
    StoreCabMap(st, group.key,
                IssueCabs(st, assign_with_app_preference(group.people), id_type))

\* _assign_cabs(groups, id_type) from the given counter values: the returned
\* mapping (none when raised), the counters afterwards
assign_cabs(groups, id_type, counters) ==
    LET F[n \in 0..Len(groups)] ==
            IF n = 0 THEN [assignments |-> <<>>, counters |-> counters, raised |-> FALSE]
            ELSE AssignGroup(F[n - 1], groups[n], id_type)
    IN  F[Len(groups)]

\* the cab id recorded for a name in one segment ('' when none): the
\* "assigned" lookup of write_cab_excel, later cabs overwriting earlier ones
AssignedCab(assignments, name) ==
    LET cabs == Flatten([g \in 1..Len(assignments) |-> assignments[g].cab_map])
        hits == {c \in 1..Len(cabs) :
                    /\ Len(cabs[c].riders) > 1
                    /\ \E i \in 1..Len(cabs[c].riders) : cabs[c].riders[i].name = name}
    IN  IF hits = {} THEN <<>>
        ELSE cabs[CHOOSE c \in hits : \A k \in hits : k <= c].cab_id

\* f"Cab {cab_id}" when a cab id is recorded
CabLabel(cab_id) == IF cab_id # <<>> THEN <<"Cab ">> \o cab_id ELSE <<>>

\* position of a name in sorted(all_people, key=lambda p: p.name)
NameOrd(name) == CHOOSE i \in 1..Len(Names) : Names[i] = name[1]

\* the sorted list of a sheet
SortedByName(all_ppl) == SortBy(all_ppl, [i \in 1..Len(all_ppl) |-> <<NameOrd(all_ppl[i].name)>>])

\* the rows appended to the 'Cab Assignments' sheet
CabSheet(all_ppl, hotel_asg, support_asg, airport_asg) ==
    LET sorted == SortedByName(all_ppl)
    IN  [i \in 1..Len(sorted) |->
            [name    |-> sorted[i].name,
             hotel   |-> IF sorted[i].personal.Hotel THEN <<"Personal">>
                         ELSE CabLabel(AssignedCab(hotel_asg, sorted[i].name)),
             support |-> CabLabel(AssignedCab(support_asg, sorted[i].name)),
             airport |-> IF sorted[i].personal.Airport THEN <<"Personal">>
                         ELSE CabLabel(AssignedCab(airport_asg, sorted[i].name))]]

----------------------------------------------------------------------------
(* go_live_carpooling.assign_carpool_passengers and                        *)
(* team_trip_carpooling.simple_assign_passengers: round-robin seating.     *)
(* A group's cars are a list of [driver, passengers] in the order of the   *)
(* driver_slots dict.                                                      *)

max_passengers == 2

\* the first i in range(len(drivers)) whose driver passes the test, as the
\* driver's index (driver_index + i) % len(drivers); 0 when there is none
\* (accepting is the set of positions of the drivers that pass)
FirstDriver(n, driver_index, accepting) ==
    LET hits == {i \in 0..(n - 1) : (((driver_index + i) % n) + 1) \in accepting}
    IN  IF hits = {} THEN 0
        ELSE (((driver_index + (CHOOSE i \in hits : \A k \in hits : i <= k)) % n) + 1)

\* mutant: a driver with max_passengers passengers still counts as open
SeatPassengerOver(st, passenger) ==
    LET n    == Len(st.cars)
        open == {c \in 1..n : Len(st.cars[c].passengers) <= max_passengers}
        same == FirstDriver(n, st.driver_index,
                            {c \in open : st.cars[c].driver.app = passenger.app})
        any  == FirstDriver(n, st.driver_index, open)
        idx  == IF same # 0 THEN same ELSE any
    IN  IF idx = 0 THEN st
        ELSE [cars         |-> [st.cars EXCEPT ![idx].passengers = Append(@, passenger)],
              driver_index |-> idx % Len(st.cars)]

\* mutant: the cursor stays where it was after a passenger is seated
SeatPassengerStay(st, passenger) ==
    LET n    == Len(st.cars)
        open == {c \in 1..n : Len(st.cars[c].passengers) < max_passengers}
        same == FirstDriver(n, st.driver_index,
                            {c \in open : st.cars[c].driver.app = passenger.app})
        any  == FirstDriver(n, st.driver_index, open)
        idx  == IF same # 0 THEN same ELSE any
    IN  IF idx = 0 THEN st
        ELSE [cars         |-> [st.cars EXCEPT ![idx].passengers = Append(@, passenger)],
              driver_index |-> st.driver_index]

\* mutant: the first pass is missing, any open driver is taken
SeatPassengerAnyFirst(st, passenger) ==
    LET n    == Len(st.cars)
        open == {c \in 1..n : Len(st.cars[c].passengers) < max_passengers}
        idx  == FirstDriver(n, st.driver_index, open)
    IN  IF idx = 0 THEN st
        ELSE [cars         |-> [st.cars EXCEPT ![idx].passengers = Append(@, passenger)],
              driver_index |-> idx % Len(st.cars)]

\* the body of "for passenger in passengers": a same-app driver with an open
\* slot first, any driver with an open slot next, nobody otherwise
SeatPassenger(st, passenger) ==
    LET n    == Len(st.cars)
        open == {c \in 1..n : Len(st.cars[c].passengers) < max_passengers}
        same == FirstDriver(n, st.driver_index,
                            {c \in open : st.cars[c].driver.app = passenger.app})
        any  == FirstDriver(n, st.driver_index, open)
        idx  == IF same # 0 THEN same ELSE any
    IN  IF idx = 0 THEN st
        ELSE [cars         |-> [st.cars EXCEPT ![idx].passengers = Append(@, passenger)],
              driver_index |-> idx % Len(st.cars)]

\* mutant: the loop stops one passenger short
SeatGroupShort(drivers, passengers) ==
    LET driver_slots == [i \in 1..Len(drivers) |-> [driver |-> drivers[i], passengers |-> <<>>]]
        F[n \in 0..Len(passengers)] ==
            IF n = 0 THEN [cars |-> driver_slots, driver_index |-> 0]
            ELSE SeatPassenger(F[n - 1], passengers[n])
    IN  IF drivers = <<>> THEN <<>>
        ELSE F[IF passengers = <<>> THEN 0 ELSE Len(passengers) - 1].cars

\* one group: its drivers with the passengers seated
SeatGroup(drivers, passengers) ==
    LET driver_slots == [i \in 1..Len(drivers) |-> [driver |-> drivers[i], passengers |-> <<>>]]
        F[n \in 0..Len(passengers)] ==
            IF n = 0 THEN [cars |-> driver_slots, driver_index |-> 0]
            ELSE SeatPassenger(F[n - 1], passengers[n])
    IN  IF drivers = <<>> THEN <<>> ELSE F[Len(passengers)].cars

\* go-live: drivers have or were given a rental car
assign_carpool_passengers(groups) ==
    [g \in 1..Len(groups) |->
        [key  |-> groups[g].key,
         cars |-> SeatGroup(
                     SelectSeq(groups[g].people,
                               LAMBDA p : p.has_rental_car \/ p.given_rental_car),
                     SelectSeq(groups[g].people,
                               LAMBDA p : ~(p.has_rental_car \/ p.given_rental_car)))]]

\* team trip: drivers have a rental car
simple_assign_passengers(groups) ==
    [g \in 1..Len(groups) |->
        [key  |-> groups[g].key,
         cars |-> SeatGroup(SelectSeq(groups[g].people, LAMBDA p : p.has_rental_car),
                            SelectSeq(groups[g].people, LAMBDA p : ~p.has_rental_car))]]

----------------------------------------------------------------------------
(* go_live_carpooling.generate_carpool_assignments, step 4: the backfill of *)
(* support cars with travelers left without a ride to support.             *)

\* ride_support.get(group_key, [])
GroupPeople(groups, key) ==
    IF \E g \in 1..Len(groups) : groups[g].key = key
    THEN groups[CHOOSE g \in 1..Len(groups) : groups[g].key = key].people
    ELSE <<>>

\* the travelers of one support group left without a seat and without a car
UnassignedOf(group, ride) ==
    LET ppl == GroupPeople(ride, group.key)
        NoCar(p) == ~(p.has_rental_car \/ p.given_rental_car)
        assigned_passengers == UNION {Range(group.cars[c].passengers) : c \in 1..Len(group.cars)}
        car_keys == {group.cars[c].driver : c \in 1..Len(group.cars)}
    IN  IF group.cars = <<>> THEN SelectSeq(ppl, NoCar)
        ELSE SelectSeq(ppl, LAMBDA p : p \notin car_keys /\ p \notin assigned_passengers /\ NoCar(p))

\* sort key p.end_onsite - p.begin_onsite, negated for reverse=True (which
\* keeps the order of equal keys)
OnsiteKey(p) == <<Timestamp(p.begin_onsite) - Timestamp(p.end_onsite)>>

\* unassigned_support as the backfill loop finds it
CollectUnassigned(support_asg, ride) ==
    LET found == Flatten([g \in 1..Len(support_asg) |-> UnassignedOf(support_asg[g], ride)])
    IN  SortBy(found, [i \in 1..Len(found) |-> OnsiteKey(found[i])])

\* mutant: the on-site window is not compared, only its clock times
FitsClockOnly(p, driver) ==
    /\ p.location = driver.location
    /\ p.hotel = driver.hotel
    /\ p.begin_onsite.t = driver.begin_onsite.t
    /\ p.end_onsite.t = driver.end_onsite.t

\* the test both searches of the backfill apply to a candidate
Fits(p, driver) ==
    /\ p.location = driver.location
    /\ p.hotel = driver.hotel
    /\ p.begin_onsite.t = driver.begin_onsite.t
    /\ p.end_onsite.t = driver.end_onsite.t
    /\ Timestamp(p.begin_onsite) >= Timestamp(driver.begin_onsite)
    /\ Timestamp(p.end_onsite) <= Timestamp(driver.end_onsite)

\* the index in unassigned of the match for a driver: same app first, 0 for None
FindMatch(unassigned, driver) ==
    LET same == {i \in 1..Len(unassigned) :
                    unassigned[i].app = driver.app /\ Fits(unassigned[i], driver)}
        any  == {i \in 1..Len(unassigned) : Fits(unassigned[i], driver)}
        First(S) == CHOOSE i \in S : \A k \in S : i <= k
    IN  IF same # {} THEN First(same) ELSE IF any # {} THEN First(any) ELSE 0

\* mutant: "if len(passengers) < 2" instead of the while loop
FillCarOnce(car, unassigned) ==
    LET match == FindMatch(unassigned, car.driver)
    IN  IF Len(car.passengers) < 2 /\ match # 0
        THEN [car        |-> [car EXCEPT !.passengers = Append(@, unassigned[match])],
              unassigned |-> SubSeq(unassigned, 1, match - 1)
                                 \o SubSeq(unassigned, match + 1, Len(unassigned))]
        ELSE [car |-> car, unassigned |-> unassigned]

\* "while len(passengers) < 2" for one driver
RECURSIVE FillCar(_, _)
FillCar(car, unassigned) ==
    LET match == FindMatch(unassigned, car.driver)
    IN  IF Len(car.passengers) < 2 /\ match # 0
        THEN FillCar([car EXCEPT !.passengers = Append(@, unassigned[match])],
                     SubSeq(unassigned, 1, match - 1)
                         \o SubSeq(unassigned, match + 1, Len(unassigned)))
        ELSE [car |-> car, unassigned |-> unassigned]

\* the drivers of all groups in the order the backfill visits them, as
\* <<group, car>> index pairs
BackfillOrder(support_asg) ==
    Flatten([g \in 1..Len(support_asg) |->
                [c \in 1..Len(support_asg[g].cars) |-> <<g, c>>]])

\* the backfill loop: the support assignments and the list afterwards
Backfill(support_asg, unassigned) ==
    LET order == BackfillOrder(support_asg)
        F[n \in 0..Len(order)] ==
            IF n = 0 THEN [assignments |-> support_asg, unassigned |-> unassigned]
            ELSE LET prev == F[n - 1]
                     g    == order[n][1]
                     c    == order[n][2]
                     car  == prev.assignments[g].cars[c]
                     r    == FillCar(car, prev.unassigned)
                 IN  IF special(car.driver) THEN prev
                     ELSE [assignments |-> [prev.assignments EXCEPT ![g].cars[c] = r.car],
                           unassigned  |-> r.unassigned]
    IN  F[Len(order)]

----------------------------------------------------------------------------
(* The 'Assignments' sheets of go-live and team trip *)

\* the driver recorded for a name in one segment ('' when none), later cars
\* overwriting earlier ones
AssignedDriver(assignments, name) ==
    LET cars == Flatten([g \in 1..Len(assignments) |-> assignments[g].cars])
        hits == {c \in 1..Len(cars) :
                    \E i \in 1..Len(cars[c].passengers) : cars[c].passengers[i].name = name}
    IN  IF hits = {} THEN <<>>
        ELSE cars[CHOOSE c \in hits : \A k \in hits : k <= c].driver.name

\* one row per person, sorted by name; the support column is filled for
\* go-live only
DriverSheet(all_ppl, hotel_asg, support_asg, airport_asg, with_support) ==
    LET sorted == SortedByName(all_ppl)
        Row(person) ==
            LET rental_car == IF person.has_rental_car \/ person.given_rental_car
                              THEN person.name ELSE <<>>
            IN  [name       |-> person.name,
                 rental_car |-> rental_car,
                 hotel      |-> IF person.personal.Hotel THEN <<"Personal">>
                                ELSE IF rental_car # <<>> THEN person.name
                                ELSE AssignedDriver(hotel_asg, person.name),
                 support    |-> IF ~with_support THEN <<>>
                                ELSE IF rental_car # <<>> THEN person.name
                                ELSE AssignedDriver(support_asg, person.name),
                 airport    |-> IF person.personal.Airport THEN <<"Personal">>
                                ELSE IF rental_car # <<>> THEN person.name
                                ELSE AssignedDriver(airport_asg, person.name),
                 rental_given |-> IF person.given_rental_car /\ ~person.has_rental_car
                                  THEN "YES" ELSE ""]
    IN  [i \in 1..Len(sorted) |-> Row(sorted[i])]

----------------------------------------------------------------------------
(* main.process_carpool_assignment: the overrides of Parser.process_excel  *)
(* and Parser._cluster_by_time. A function bound to one of the two        *)
(* attributes is the original ([patched |-> FALSE]) or a closure made by   *)
(* main.py, holding the arguments it captured and the function it saved.   *)

\* Parser.process_excel as givetochat1_6.py defines it
orig_process_excel == [patched |-> FALSE]

\* the two attributes of the Parser class right after import
ImportedParser ==
    [process_excel |-> orig_process_excel, cluster_by_time |-> orig_cluster_func]

\* def patched_process_excel(input_file), closed over hotel_groups and
\* orig_process_excel
patched_process_excel(hotel_groups, orig) ==
    [patched |-> TRUE, hotel_groups |-> hotel_groups, orig |-> orig]

\* def patched_cluster(travelers, attribute, threshold_hours), closed over
\* the two slider values and orig_cluster_func
patched_cluster(hotel_window_min, airport_window_min, orig) ==
    [patched |-> TRUE, hotel_window_min |-> hotel_window_min,
     airport_window_min |-> airport_window_min, orig |-> orig]

\* Parser.process_excel: one Person per row of the workbook
process_excel(input_file) ==
    [i \in 1..Len(input_file.rows) |-> Person(input_file.rows[i])]

\* "/".join(names)
RECURSIVE Join(_)
Join(names) ==
    IF names = <<>> THEN ""
    ELSE IF Len(names) = 1 THEN names[1]
    ELSE names[1] \o "/" \o Join(Tail(names))

\* Parser.merge_hotels: every traveler of a hotel of the group gets the
\* joined sorted names of the group as hotel
merge_hotels(all_ppl, hotel_groups) ==
    LET Merge(ppl, group) ==
            LET stripped    == [i \in 1..Len(group) |-> Strip(group[i])]
                merged_name == Join(SortBy(stripped,
                                           [i \in 1..Len(group) |-> <<Ord(stripped[i])>>]))
            IN  [i \in 1..Len(ppl) |->
                    IF ppl[i].hotel # "" /\ Strip(ppl[i].hotel) \in Range(group)
                    THEN [ppl[i] EXCEPT !.hotel = merged_name]
                    ELSE ppl[i]]
        F[n \in 0..Len(hotel_groups)] ==
            IF n = 0 THEN all_ppl ELSE Merge(F[n - 1], hotel_groups[n])
    IN  F[Len(hotel_groups)]

\* Parser.process_excel as it is bound at the time of the call: the original,
\* or a patched_process_excel, which calls the function it saved and merges
\* each non-empty group of its hotel_groups
RECURSIVE CallProcessExcel(_, _)
CallProcessExcel(process_excel_func, input_file) ==
    IF process_excel_func.patched
    THEN merge_hotels(CallProcessExcel(process_excel_func.orig, input_file),
                      SelectSeq(process_excel_func.hotel_groups, LAMBDA group : group # <<>>))
    ELSE process_excel(input_file)

\* the if / elif chain of process_carpool_assignment: the backend a ride
\* type selects
UnknownRideType == "Unknown ride type"

SelectedBackend(ride_type) ==
    CASE ride_type = "Go-Live"   -> "go-live"
      [] ride_type = "Team Trip" -> "team trip"
      [] ride_type = "Cabpool"   -> "cabpool"
      [] OTHER                   -> UnknownRideType

\* the Parser.ride_to_hotel call of a backend: cabpool passes thresh=0, the
\* other two the default
SegmentHotel(backend, all_ppl, cluster_func) ==
    ride_to_hotel(SelectSeq(all_ppl, LAMBDA p : ~p.personal.Hotel),
                  IF backend = "cabpool" THEN Hours(0) ELSE Hours(30), cluster_func)

\* the Parser.ride_to_airport call of a backend; cabpool makes it after
\* ride_to_support has sorted all_people in place
SegmentAirport(backend, all_ppl, cluster_func) ==
    ride_to_airport(SelectSeq(IF backend = "cabpool" THEN ride_to_support(all_ppl).sorted
                              ELSE all_ppl,
                              LAMBDA p : ~p.personal.Airport),
                    Hours(60), cluster_func).carpool_groups

\* mutant: the finally block leaves Parser.process_excel as it is
RestoreProcessExcelSkipped(parser, call) == parser

\* the line 78 and the line 79 of the finally block
RestoreProcessExcel(parser, call) ==
    [parser EXCEPT !.process_excel = call.orig_process_excel]

RestoreClusterByTime(parser, call) ==
    [parser EXCEPT !.cluster_by_time = call.orig_cluster_func]

\* the threads that may run process_carpool_assignment in one process
Threads == {1, 2}

\* a local that is not bound yet
Unbound == [unbound |-> TRUE]

NoFile == [readable |-> FALSE, rows |-> <<>>]

\* no invocation on a thread; previous holds the arguments of the thread's
\* last finished invocation, count the invocations started
IdleCall ==
    [pc |-> "idle", count |-> 0, previous |-> <<>>,
     ride_type |-> "", hotel_window_min |-> 0, airport_window_min |-> 0,
     hotel_groups |-> <<>>, input_file |-> NoFile,
     orig_process_excel |-> Unbound, orig_cluster_func |-> Unbound,
     all_people |-> <<>>, ride_hotel |-> <<>>, ride_airport |-> <<>>, outcome |-> ""]

\* main.py is imported and process_carpool_assignment has not been called
MainIdle ==
    /\ Parser = ImportedParser
    /\ calls = [t \in Threads |-> IdleCall]

----------------------------------------------------------------------------
(* Spreadsheet rows *)

NoCell == [kind |-> "nan"]

DateCell(d, t) == [kind |-> "str", fmt |-> "ymd_hms", d |-> d, t |-> t]

BadDateCell == [kind |-> "str", fmt |-> "other"]

\* "<num>@ <hh>:<mm><ap> <city>"
FlightCell(num, hh, mm, ap, city) ==
    [kind |-> "str", match |-> TRUE, num |-> num, hh |-> hh, mm |-> mm, ap |-> ap,
     city |-> city]

\* text the flight pattern does not match, such as "TBD"
BadFlightCell == [kind |-> "str", match |-> FALSE]

\* a complete row: every traveler of the model is a variation of it
BaseRow(i) ==
    [Name          |-> <<Names[i]>>,
     Hotel         |-> "H1",
     App           |-> "X",
     Role          |-> "CC",
     Location      |-> "L1",
     RentalCar     |-> <<NaN>>,
     BeginOnSite   |-> DateCell(2, 480),
     EndOnSite     |-> DateCell(5, 1020),
     DepartDate    |-> DateCell(1, 0),
     ReturnDate    |-> DateCell(5, 0),
     RentalCar_etr |-> NaN,
     RideToHotel   |-> NaN,
     RideToAirport |-> NaN,
     ArrivalFlight |-> FlightCell("100", 9, 0, "A", "ORD"),
     ReturnFlight  |-> FlightCell("200", 7, 0, "P", "ORD")]

\* list is a list of length 0..n whose i-th element is make[i, c] for a
\* choice c from Choices
ListOf(list, n, Choices, make) ==
    \E m \in 0..n : \E f \in [1..m -> Choices] : list = [i \in 1..m |-> make[i, f[i]]]

----------------------------------------------------------------------------
(* Specification SpecPack: _assign_with_app_preference on every list of    *)
(* up to MaxPeople travelers with affiliations from PackApps.              *)

Rider(i, a) == [name |-> <<Names[i]>>, app |-> a]

Riders == [i \in 1..Len(Names), a \in PackApps |-> Rider(i, a)]

PackIdle == people = <<>> /\ cab_units = <<>>

ClusterIdle ==
    /\ travelers = <<>>
    /\ attribute = ""
    /\ threshold = Hours(0)
    /\ clusters = <<>>

\* the process right after import: no backend has run
RunIdle ==
    /\ mode = ""
    /\ runs = 0
    /\ next_cab = ImportedCounters
    /\ all_people = <<>>
    /\ ride_hotel = <<>>
    /\ ride_support = <<>>
    /\ ride_airport = <<>>
    /\ hotel_assignments = <<>>
    /\ support_assignments = <<>>
    /\ airport_assignments = <<>>
    /\ unassigned_support = <<>>
    /\ sheet = <<>>

\* no direct call of ride_to_airport, _assign_cabs or the round-robin is
\* under way
CallIdle ==
    /\ no_time_groups = <<>>
    /\ cab_groups = <<>>
    /\ cab_id_type = ""
    /\ max_per_cab = 3
    /\ cab_returned = <<>>
    /\ rr_drivers = <<>>
    /\ rr_passengers = <<>>
    /\ rr_state = <<>>
    /\ rr_next = 0
    /\ MainIdle

InitPack ==
    /\ pc = "pack"
    /\ ListOf(people, MaxPeople, PackApps, Riders)
    /\ cab_units = <<>>
    /\ ClusterIdle
    /\ RunIdle
    /\ CallIdle

Pack ==
    /\ pc = "pack"
    /\ cab_units' = assign_with_app_preference(people)
    /\ pc' = "packed"
    /\ UNCHANGED <<people, clusterVars, runVars, callVars>>

NextPack == Pack

SpecPack == InitPack /\ [][NextPack]_vars

----------------------------------------------------------------------------
(* Specification SpecCluster: Parser._cluster_by_time on every list of up  *)
(* to MaxTravelers travelers, for both timestamp attributes and several    *)
(* thresholds. The travelers are parsed rows; their flight cells vary.     *)

\* flight cells: a missing one and four clock times (09:00, 09:20, 09:30, 10:05)
ClusterFlights ==
    {NoCell,
     FlightCell("100", 9, 0, "A", "ORD"), FlightCell("100", 9, 20, "A", "ORD"),
     FlightCell("100", 9, 30, "A", "ORD"), FlightCell("100", 10, 5, "A", "ORD")}

\* threshold_hours 0 and 0.5, and a slider's 65 minutes
ClusterThresholds == {Hours(0), Hours(30), [min |-> 65, divided |-> TRUE]}

ArrivalTraveler(i, cell) == Person([BaseRow(i) EXCEPT !.ArrivalFlight = cell])

ReturnTraveler(i, cell) == Person([BaseRow(i) EXCEPT !.ReturnFlight = cell])

ArrivalTravelers == [i \in 1..Len(Names), cell \in ClusterFlights |-> ArrivalTraveler(i, cell)]

ReturnTravelers == [i \in 1..Len(Names), cell \in ClusterFlights |-> ReturnTraveler(i, cell)]

InitCluster ==
    /\ pc = "cluster"
    /\ attribute \in {"arrival_dt", "return_dt"}
    /\ IF attribute = "arrival_dt"
       THEN ListOf(travelers, MaxTravelers, ClusterFlights, ArrivalTravelers)
       ELSE ListOf(travelers, MaxTravelers, ClusterFlights, ReturnTravelers)
    /\ threshold \in ClusterThresholds
    /\ clusters = <<>>
    /\ PackIdle
    /\ RunIdle
    /\ CallIdle

ClusterByTime ==
    /\ pc = "cluster"
    /\ clusters' = cluster_by_time(travelers, attribute, threshold)
    /\ pc' = "clustered"
    /\ UNCHANGED <<travelers, attribute, threshold, packVars, runVars, callVars>>

NextCluster == ClusterByTime

SpecCluster == InitCluster /\ [][NextCluster]_vars

----------------------------------------------------------------------------
(* Specification SpecCabpool: cabpool.write_cab_excel, called up to MaxRuns *)
(* times in one process, each time on a roster of up to MaxRoster rows.    *)

\* a backend starts: Parser.process_excel builds the Person list
Start(backends, max_runs, Choices, make) ==
    /\ pc \in {"idle", "done"}
    /\ runs < max_runs
    /\ runs' = runs + 1
    /\ mode' \in backends
    /\ ListOf(all_people', MaxRoster, Choices, make)
    /\ pc' = "parsed"
    /\ ride_hotel' = <<>>
    /\ ride_support' = <<>>
    /\ ride_airport' = <<>>
    /\ hotel_assignments' = <<>>
    /\ support_assignments' = <<>>
    /\ airport_assignments' = <<>>
    /\ unassigned_support' = <<>>
    /\ sheet' = <<>>
    /\ UNCHANGED <<next_cab, packVars, clusterVars, callVars>>

\* write_cab_excel, step 2: the three segment groupings
CabSegment ==
    /\ pc = "parsed"
    /\ mode = "cabpool"
    /\ ride_hotel' = ride_to_hotel(SelectSeq(all_people, LAMBDA p : ~p.personal.Hotel),
                                   Hours(0), orig_cluster_func)
    /\ \E support \in {ride_to_support(all_people)} :
           /\ ride_support' = support.groups
           /\ all_people' = support.sorted
    /\ ride_airport' = ride_to_airport(SelectSeq(all_people', LAMBDA p : ~p.personal.Airport),
                                       Hours(60), orig_cluster_func).carpool_groups
    /\ pc' = "segmented"
    /\ UNCHANGED <<mode, runs, next_cab, assignVars, packVars, clusterVars, callVars>>

\* write_cab_excel, step 4: the lookup and the sheet, given what the three
\* _assign_cabs calls returned
WriteCabs(h, u, a) ==
    /\ hotel_assignments' = h.assignments
    /\ support_assignments' = u.assignments
    /\ airport_assignments' = a.assignments
    /\ next_cab' = a.counters
    /\ sheet' = CabSheet(all_people, h.assignments, u.assignments, a.assignments)

AssignAirportCabs(h, u) == WriteCabs(h, u, assign_cabs(ride_airport, "airport", u.counters))

AssignSupportCabs(h) == AssignAirportCabs(h, assign_cabs(ride_support, "support", h.counters))

\* write_cab_excel, steps 3 and 4: the three _assign_cabs calls and the sheet
CabAssign ==
    /\ pc = "segmented"
    /\ mode = "cabpool"
    /\ AssignSupportCabs(assign_cabs(ride_hotel, "hotel", next_cab))
    /\ pc' = "done"
    /\ UNCHANGED <<mode, runs, all_people, rideVars, unassigned_support, packVars, clusterVars, callVars>>

\* rows of a cabpool roster: the affiliation and the hotel vary
CabTraveler(i, c) == Person([BaseRow(i) EXCEPT !.App = c[1], !.Hotel = c[2]])

CabProfiles == {<<"X", "H1">>, <<"Y", "H1">>, <<"X", "H2">>}

CabTravelers == [i \in 1..Len(Names), c \in CabProfiles |-> CabTraveler(i, c)]

InitRun ==
    /\ pc = "idle"
    /\ RunIdle
    /\ PackIdle
    /\ ClusterIdle
    /\ CallIdle

StartCabpool == Start({"cabpool"}, MaxRuns, CabProfiles, CabTravelers)

NextCabpool == StartCabpool \/ CabSegment \/ CabAssign

SpecCabpool == InitRun /\ [][NextCabpool]_vars

----------------------------------------------------------------------------
(* Specification Spec: one run of a backend (cabpool.write_cab_excel,      *)
(* team_trip_carpooling.write_carpool_excel or                             *)
(* go_live_carpooling.generate_carpool_assignments) on a roster of up to   *)
(* MaxRoster rows.                                                         *)

\* write_carpool_excel, step 2: the hotel and airport groupings
TeamSegment ==
    /\ pc = "parsed"
    /\ mode = "team trip"
    /\ ride_hotel' = ride_to_hotel(SelectSeq(all_people, LAMBDA p : ~p.personal.Hotel),
                                   Hours(30), orig_cluster_func)
    /\ ride_airport' = ride_to_airport(SelectSeq(all_people, LAMBDA p : ~p.personal.Airport),
                                       Hours(60), orig_cluster_func).carpool_groups
    /\ pc' = "segmented"
    /\ UNCHANGED <<mode, runs, next_cab, all_people, ride_support, assignVars,
                   packVars, clusterVars, callVars>>

\* write_carpool_excel, steps 3 and 4: the seating and the sheet
TeamAssign ==
    /\ pc = "segmented"
    /\ mode = "team trip"
    /\ hotel_assignments' = simple_assign_passengers(ride_hotel)
    /\ airport_assignments' = simple_assign_passengers(ride_airport)
    /\ sheet' = DriverSheet(all_people, hotel_assignments', <<>>, airport_assignments', FALSE)
    /\ pc' = "done"
    /\ UNCHANGED <<mode, runs, next_cab, all_people, rideVars, support_assignments,
                   unassigned_support, packVars, clusterVars, callVars>>

\* generate_carpool_assignments, step 2: the three groupings
GoSegment ==
    /\ pc = "parsed"
    /\ mode = "go-live"
    /\ ride_hotel' = ride_to_hotel(SelectSeq(all_people, LAMBDA p : ~p.personal.Hotel),
                                   Hours(30), orig_cluster_func)
    /\ ride_airport' = ride_to_airport(SelectSeq(all_people, LAMBDA p : ~p.personal.Airport),
                                       Hours(60), orig_cluster_func).carpool_groups
    /\ \E support \in {ride_to_support(all_people)} :
           /\ ride_support' = support.groups
           /\ all_people' = support.sorted
    /\ pc' = "segmented"
    /\ UNCHANGED <<mode, runs, next_cab, assignVars, packVars, clusterVars, callVars>>

\* generate_carpool_assignments, step 3: the round-robin seating
GoAssign ==
    /\ pc = "segmented"
    /\ mode = "go-live"
    /\ hotel_assignments' = assign_carpool_passengers(ride_hotel)
    /\ airport_assignments' = assign_carpool_passengers(ride_airport)
    /\ support_assignments' = assign_carpool_passengers(ride_support)
    /\ pc' = "assigned"
    /\ UNCHANGED <<mode, runs, next_cab, all_people, rideVars, unassigned_support, sheet,
                   packVars, clusterVars, callVars>>

\* generate_carpool_assignments, steps 4 and 5: the backfill and the sheet
GoBackfill ==
    /\ pc = "assigned"
    /\ mode = "go-live"
    /\ \E r \in {Backfill(support_assignments,
                          CollectUnassigned(support_assignments, ride_support))} :
           /\ support_assignments' = r.assignments
           /\ unassigned_support' = r.unassigned
           /\ sheet' = DriverSheet(all_people, hotel_assignments, r.assignments,
                                   airport_assignments, TRUE)
    /\ pc' = "done"
    /\ UNCHANGED <<mode, runs, next_cab, all_people, rideVars, hotel_assignments,
                   airport_assignments, packVars, clusterVars, callVars>>

\* rows of a roster: the affiliation, the rental car and the first day on site vary
CrewProfiles ==
    {[app |-> "X", car |-> TRUE, begin |-> 2], [app |-> "X", car |-> FALSE, begin |-> 2],
     [app |-> "Y", car |-> FALSE, begin |-> 2],
     [app |-> "ID", car |-> TRUE, begin |-> 2], [app |-> "ID", car |-> FALSE, begin |-> 2],
     [app |-> "X", car |-> FALSE, begin |-> 3]}

CrewTraveler(i, c) ==
    Person([BaseRow(i) EXCEPT !.App = c.app,
                              !.RentalCar = IF c.car THEN <<Names[i]>> ELSE <<NaN>>,
                              !.BeginOnSite = DateCell(c.begin, 480)])

Backends == {"cabpool", "team trip", "go-live"}

CrewTravelers == [i \in 1..Len(Names), c \in CrewProfiles |-> CrewTraveler(i, c)]

StartBackend == Start(Backends, 1, CrewProfiles, CrewTravelers)

Next ==
    \/ StartBackend
    \/ CabSegment
    \/ CabAssign
    \/ TeamSegment
    \/ TeamAssign
    \/ GoSegment
    \/ GoAssign
    \/ GoBackfill

Spec == InitRun /\ [][Next]_vars

----------------------------------------------------------------------------
(* Specification SpecDrivers: one run of a driver-based backend (team trip *)
(* or go-live) on a roster whose rows vary in the rental car, the          *)
(* location (a float location grants a car), a special affiliation and    *)
(* the first day on site.                                                  *)

DriverProfiles ==
    {[app |-> "X", car |-> TRUE, location |-> "L1", begin |-> 2],
     [app |-> "X", car |-> FALSE, location |-> "L1", begin |-> 2],
     [app |-> "X", car |-> FALSE, location |-> "Float Pool", begin |-> 2],
     [app |-> "ID", car |-> TRUE, location |-> "L1", begin |-> 2],
     [app |-> "X", car |-> FALSE, location |-> "L1", begin |-> 3],
     [app |-> "X", car |-> TRUE, location |-> "L1", begin |-> 3]}

DriverTraveler(i, c) ==
    Person([BaseRow(i) EXCEPT !.App = c.app,
                              !.Location = c.location,
                              !.RentalCar = IF c.car THEN <<Names[i]>> ELSE <<NaN>>,
                              !.BeginOnSite = DateCell(c.begin, 480)])

DriverTravelers == [i \in 1..Len(Names), c \in DriverProfiles |-> DriverTraveler(i, c)]

StartDrivers == Start({"team trip", "go-live"}, 1, DriverProfiles, DriverTravelers)

NextDrivers ==
    \/ StartDrivers
    \/ TeamSegment
    \/ TeamAssign
    \/ GoSegment
    \/ GoAssign
    \/ GoBackfill

SpecDrivers == InitRun /\ [][NextDrivers]_vars

----------------------------------------------------------------------------
(* Specification SpecSegment: Parser.ride_to_hotel, ride_to_support and    *)
(* ride_to_airport with their default thresholds on a parsed roster whose  *)
(* rows vary in the end-on-site cell, the personal airport ride and the    *)
(* affiliation.                                                            *)

\* End OnSite at 17:00, 07:00 and 11:00 sharp, an End OnSite cell that does
\* not parse, a missing Depart Date, a personal ride to the airport, a
\* special affiliation
SegmentProfiles == {"day", "night", "eleven", "bad end", "no depart", "personal", "ID"}

SegmentTraveler(i, c) ==
    Person([BaseRow(i) EXCEPT
                !.EndOnSite = CASE c = "night"   -> DateCell(5, 420)
                                [] c = "eleven"  -> DateCell(5, 660)
                                [] c = "bad end" -> BadDateCell
                                [] OTHER         -> @,
                !.DepartDate = IF c = "no depart" THEN NoCell ELSE @,
                !.RideToAirport = IF c = "personal" THEN "personal" ELSE @,
                !.App = IF c = "ID" THEN "ID" ELSE @])

SegmentTravelers == [i \in 1..Len(Names), c \in SegmentProfiles |-> SegmentTraveler(i, c)]

StartParser == Start({"parser"}, 1, SegmentProfiles, SegmentTravelers)

RideToHotel ==
    /\ pc = "parsed"
    /\ mode = "parser"
    /\ ride_hotel' = ride_to_hotel(all_people, Hours(30), orig_cluster_func)
    /\ pc' = "hotel"
    /\ UNCHANGED <<mode, runs, next_cab, all_people, ride_support, ride_airport, assignVars,
                   packVars, clusterVars, callVars>>

RideToSupport ==
    /\ pc = "hotel"
    /\ mode = "parser"
    /\ \E support \in {ride_to_support(all_people)} :
           /\ ride_support' = support.groups
           /\ all_people' = support.sorted
    /\ pc' = "support"
    /\ UNCHANGED <<mode, runs, next_cab, ride_hotel, ride_airport, assignVars,
                   packVars, clusterVars, callVars>>

\* the returned carpool_groups, and groups_noTime as it is when the function
\* returns
RideToAirport ==
    /\ pc = "support"
    /\ mode = "parser"
    /\ \E airport \in {ride_to_airport(all_people, Hours(60), orig_cluster_func)} :
           /\ ride_airport' = airport.carpool_groups
           /\ no_time_groups' = airport.groups_noTime
    /\ pc' = "segmented"
    /\ UNCHANGED <<mode, runs, next_cab, all_people, ride_hotel, ride_support, assignVars,
                   packVars, clusterVars, cabVars, seatVars, mainVars>>

NextSegment == StartParser \/ RideToHotel \/ RideToSupport \/ RideToAirport

SpecSegment == InitRun /\ [][NextSegment]_vars

----------------------------------------------------------------------------
(* Specification SpecKeep: the same three Parser calls on a parsed roster   *)
(* whose rows vary in the flight times, the personal rides, the end on     *)
(* site, and which may hold two rows of one special traveler (same name,   *)
(* affiliation ID) that depart on different days.                          *)

KeepProfiles == {"early", "near", "late", "personal", "night", "twin day 1", "twin day 2"}

\* the name shared by the rows of the twice-listed traveler
TwinName == <<"n9">>

KeepTraveler(i, c) ==
    Person([BaseRow(i) EXCEPT
                !.Name = IF c \in {"twin day 1", "twin day 2"} THEN TwinName ELSE @,
                !.App = IF c \in {"twin day 1", "twin day 2"} THEN "ID" ELSE @,
                !.DepartDate = IF c = "twin day 2" THEN DateCell(2, 0) ELSE @,
                !.ArrivalFlight = CASE c = "near" -> FlightCell("101", 9, 20, "A", "ORD")
                                    [] c = "late" -> FlightCell("102", 11, 0, "A", "ORD")
                                    [] OTHER      -> @,
                !.ReturnFlight = CASE c = "near" -> FlightCell("201", 7, 40, "P", "ORD")
                                   [] c = "late" -> FlightCell("202", 9, 0, "P", "ORD")
                                   [] OTHER      -> @,
                !.RideToHotel = IF c = "personal" THEN "personal" ELSE @,
                !.RideToAirport = IF c = "personal" THEN "personal" ELSE @,
                !.EndOnSite = IF c = "night" THEN DateCell(5, 420) ELSE @])

KeepTravelers == [i \in 1..Len(Names), c \in KeepProfiles |-> KeepTraveler(i, c)]

StartKeep == Start({"parser"}, 1, KeepProfiles, KeepTravelers)

NextKeep == StartKeep \/ RideToHotel \/ RideToSupport \/ RideToAirport

SpecKeep == InitRun /\ [][NextKeep]_vars

----------------------------------------------------------------------------
(* Specification SpecAssign: one call of cabpool._assign_cabs right after  *)
(* import, on a grouping of up to two cohorts of up to MaxPeople riders in *)
(* all, for every id_type and several max_per_cab values.                  *)

\* the three segment selectors and one that is none of them
IdTypes == {"hotel", "support", "airport", "shuttle"}

CabCapacities == {2, 3, 4}

AssignApps == {"X", "Y"}

\* a dict of n cohorts (0, 1 or 2) made of the riders, the first cohort taking
\* the first s of them; a cohort may be an empty list
Grouping(riders, s, n) ==
    CASE n = 0 -> <<>>
      [] n = 1 -> <<[key |-> Key(<<"G1">>, <<>>), people |-> riders]>>
      [] n = 2 -> <<[key |-> Key(<<"G1">>, <<>>), people |-> SubSeq(riders, 1, s)],
                    [key |-> Key(<<"G2">>, <<>>), people |-> SubSeq(riders, s + 1, Len(riders))]>>

InitAssign ==
    /\ pc = "assign"
    /\ \E m \in 0..MaxPeople : \E f \in [1..m -> AssignApps] :
           \E n \in 0..2 : \E s \in (IF n = 2 THEN 0..m ELSE {0}) :
               cab_groups = Grouping([i \in 1..m |-> Riders[i, f[i]]], s, n)
    /\ cab_id_type \in IdTypes
    /\ max_per_cab \in CabCapacities
    /\ cab_returned = <<>>
    /\ no_time_groups = <<>>
    /\ rr_drivers = <<>>
    /\ rr_passengers = <<>>
    /\ rr_state = <<>>
    /\ rr_next = 0
    /\ MainIdle
    /\ RunIdle
    /\ PackIdle
    /\ ClusterIdle

\* _assign_cabs(groups, id_type, max_per_cab): the body never reads
\* max_per_cab; a raised ValueError leaves no return value
AssignCabs ==
    /\ pc = "assign"
    /\ \E r \in {assign_cabs(cab_groups, cab_id_type, next_cab)} :
           /\ cab_returned' = [raised      |-> r.raised,
                               assignments |-> IF r.raised THEN <<>> ELSE r.assignments]
           /\ next_cab' = r.counters
    /\ pc' = "returned"
    /\ UNCHANGED <<mode, runs, all_people, rideVars, assignVars, packVars, clusterVars,
                   no_time_groups, cab_groups, cab_id_type, max_per_cab, seatVars, mainVars>>

NextAssign == AssignCabs

SpecAssign == InitAssign /\ [][NextAssign]_vars

----------------------------------------------------------------------------
(* Specification SpecSeat: the passenger loop of assign_carpool_passengers *)
(* and of simple_assign_passengers on one cohort of up to MaxRoster        *)
(* travelers, one passenger per step.                                      *)

SeatProfiles ==
    {[app |-> "X", car |-> TRUE, location |-> "L1"],
     [app |-> "Y", car |-> TRUE, location |-> "L1"],
     [app |-> "X", car |-> FALSE, location |-> "L1"],
     [app |-> "Y", car |-> FALSE, location |-> "L1"],
     [app |-> "Z", car |-> FALSE, location |-> "L1"],
     [app |-> "X", car |-> FALSE, location |-> "Float Pool"]}

SeatTraveler(i, c) ==
    Person([BaseRow(i) EXCEPT !.App = c.app,
                              !.Location = c.location,
                              !.RentalCar = IF c.car THEN <<Names[i]>> ELSE <<NaN>>])

SeatTravelers == [i \in 1..Len(Names), c \in SeatProfiles |-> SeatTraveler(i, c)]

\* the head of "for key, people in groups.items()": drivers, passengers,
\* driver_slots and driver_index = 0 of one cohort
StartSeat ==
    /\ pc = "idle"
    /\ mode' \in {"team trip", "go-live"}
    /\ \E m \in 0..MaxRoster : \E f \in [1..m -> SeatProfiles] :
           \E cohort \in {[i \in 1..m |-> SeatTravelers[i, f[i]]]} :
               /\ rr_drivers' =
                      SelectSeq(cohort, LAMBDA p : IF mode' = "team trip" THEN p.has_rental_car
                                                   ELSE p.has_rental_car \/ p.given_rental_car)
               /\ rr_passengers' =
                      SelectSeq(cohort, LAMBDA p : IF mode' = "team trip" THEN ~p.has_rental_car
                                                   ELSE ~(p.has_rental_car \/ p.given_rental_car))
    /\ rr_state' = [cars         |-> [i \in 1..Len(rr_drivers') |->
                                         [driver |-> rr_drivers'[i], passengers |-> <<>>]],
                    driver_index |-> 0]
    /\ rr_next' = 0
    /\ pc' = "seating"
    /\ UNCHANGED <<runs, next_cab, all_people, rideVars, assignVars, packVars, clusterVars,
                   no_time_groups, cabVars, mainVars>>

\* one iteration of "for passenger in passengers" (not reached when the
\* cohort has no driver)
SeatNext ==
    /\ pc = "seating"
    /\ rr_drivers # <<>>
    /\ rr_next < Len(rr_passengers)
    /\ rr_state' = SeatPassenger(rr_state, rr_passengers[rr_next + 1])
    /\ rr_next' = rr_next + 1
    /\ UNCHANGED <<pc, runVars, packVars, clusterVars, no_time_groups, cabVars,
                   rr_drivers, rr_passengers, mainVars>>

NextSeat == StartSeat \/ SeatNext

SpecSeat == InitRun /\ [][NextSeat]_vars

----------------------------------------------------------------------------
(* Specification SpecMain: main.process_carpool_assignment called up to    *)
(* MaxCalls times in a row on one thread, with every ride type of the      *)
(* frontend's selectbox and of the function's own if / elif chain, several *)
(* slider and merge settings, and a workbook that can or cannot be read.   *)
(* Specification SpecOverlap: one call on each of two threads, their steps *)
(* interleaved. A step is one statement of process_carpool_assignment or   *)
(* one Parser call of the backend; what a backend does after the           *)
(* segmentation reads neither attribute of Parser.                         *)

\* frontend.py: the options of the "Ride type" selectbox
UiRideTypes == {"cabpool", "team trip", "go-live"}

\* the strings process_carpool_assignment compares ride_type with
KnownRideTypes == {"Cabpool", "Team Trip", "Go-Live"}

RideTypes == UiRideTypes \cup KnownRideTypes

\* slider values and merge groups: the frontend's defaults, wider windows
\* with hotels H1 and H2 merged, and zero windows with one empty merge group
MainSettings ==
    {[hotel_window_min |-> 30, airport_window_min |-> 60,  hotel_groups |-> <<>>],
     [hotel_window_min |-> 60, airport_window_min |-> 120, hotel_groups |-> <<<<"H1", "H2">>>>],
     [hotel_window_min |-> 0,  airport_window_min |-> 0,   hotel_groups |-> <<<<>>>>]}

\* the rows of the uploaded workbook: two hotels, arrivals at 9:00, 9:20 and
\* 9:50, returns at 19:00, 19:40 and 20:30
MainRows ==
    <<BaseRow(1),
      [BaseRow(2) EXCEPT !.Hotel = "H2",
                         !.ArrivalFlight = FlightCell("101", 9, 20, "A", "ORD"),
                         !.ReturnFlight = FlightCell("201", 7, 40, "P", "ORD")],
      [BaseRow(3) EXCEPT !.ArrivalFlight = FlightCell("102", 9, 50, "A", "ORD"),
                         !.ReturnFlight = FlightCell("202", 8, 30, "P", "ORD")]>>

\* a workbook the Parser reads, and one pd.read_excel raises on
UploadedFiles == {[readable |-> TRUE, rows |-> MainRows], NoFile}

\* largest number of process_carpool_assignment calls in a row
MaxCalls == 2

Arguments(call) ==
    [ride_type |-> call.ride_type, hotel_window_min |-> call.hotel_window_min,
     airport_window_min |-> call.airport_window_min, hotel_groups |-> call.hotel_groups,
     input_file |-> call.input_file]

InitMain ==
    /\ pc = "main"
    /\ RunIdle
    /\ PackIdle
    /\ ClusterIdle
    /\ CallIdle

MainFrame == UNCHANGED <<pc, packVars, clusterVars, runVars, no_time_groups, cabVars, seatVars>>

\* process_carpool_assignment is called on thread t
Invoke(t, max_calls, ride_types) ==
    /\ pc = "main"
    /\ calls[t].pc \in {"idle", "returned", "raised"}
    /\ calls[t].count < max_calls
    /\ \E ride_type \in ride_types, setting \in MainSettings, input_file \in UploadedFiles :
           calls' = [calls EXCEPT ![t] =
                        [IdleCall EXCEPT
                            !.pc = "save_excel",
                            !.count = calls[t].count + 1,
                            !.previous = IF calls[t].count = 0 THEN <<>>
                                         ELSE <<Arguments(calls[t])>>,
                            !.ride_type = ride_type,
                            !.hotel_window_min = setting.hotel_window_min,
                            !.airport_window_min = setting.airport_window_min,
                            !.hotel_groups = setting.hotel_groups,
                            !.input_file = input_file]]
    /\ UNCHANGED Parser
    /\ MainFrame

\* line 38: orig_process_excel = Parser.process_excel
SaveProcessExcel(t) ==
    /\ calls[t].pc = "save_excel"
    /\ calls' = [calls EXCEPT ![t].orig_process_excel = Parser.process_excel,
                              ![t].pc = "patch_excel"]
    /\ UNCHANGED Parser
    /\ MainFrame

\* line 50: Parser.process_excel = patched_process_excel
PatchProcessExcel(t) ==
    /\ calls[t].pc = "patch_excel"
    /\ Parser' = [Parser EXCEPT !.process_excel =
                     patched_process_excel(calls[t].hotel_groups, calls[t].orig_process_excel)]
    /\ calls' = [calls EXCEPT ![t].pc = "save_cluster"]
    /\ MainFrame

\* line 53: orig_cluster_func = Parser._cluster_by_time
SaveClusterByTime(t) ==
    /\ calls[t].pc = "save_cluster"
    /\ calls' = [calls EXCEPT ![t].orig_cluster_func = Parser.cluster_by_time,
                              ![t].pc = "patch_cluster"]
    /\ UNCHANGED Parser
    /\ MainFrame

\* line 64: Parser._cluster_by_time = patched_cluster
PatchClusterByTime(t) ==
    /\ calls[t].pc = "patch_cluster"
    /\ Parser' = [Parser EXCEPT !.cluster_by_time =
                     patched_cluster(calls[t].hotel_window_min, calls[t].airport_window_min,
                                     calls[t].orig_cluster_func)]
    /\ calls' = [calls EXCEPT ![t].pc = "try"]
    /\ MainFrame

\* lines 66-75: the backend is entered, or ValueError("Unknown ride type")
\* is raised
EnterBackend(t) ==
    /\ calls[t].pc = "try"
    /\ calls' = IF SelectedBackend(calls[t].ride_type) = UnknownRideType
                THEN [calls EXCEPT ![t].outcome = UnknownRideType,
                                   ![t].pc = "restore_excel"]
                ELSE [calls EXCEPT ![t].pc = "parse"]
    /\ UNCHANGED Parser
    /\ MainFrame

\* the backend's Parser.process_excel(input_xlsx), which raises on a
\* workbook that cannot be read
BackendParse(t) ==
    /\ calls[t].pc = "parse"
    /\ calls' = IF calls[t].input_file.readable
                THEN [calls EXCEPT ![t].all_people =
                                       CallProcessExcel(Parser.process_excel,
                                                        calls[t].input_file),
                                   ![t].pc = "hotel"]
                ELSE [calls EXCEPT ![t].outcome = "backend raised",
                                   ![t].pc = "restore_excel"]
    /\ UNCHANGED Parser
    /\ MainFrame

\* the backend's Parser.ride_to_hotel(...)
BackendHotel(t) ==
    /\ calls[t].pc = "hotel"
    /\ calls' = [calls EXCEPT ![t].ride_hotel =
                                  SegmentHotel(SelectedBackend(calls[t].ride_type),
                                               calls[t].all_people, Parser.cluster_by_time),
                              ![t].pc = "airport"]
    /\ UNCHANGED Parser
    /\ MainFrame

\* the backend's Parser.ride_to_airport(...); the rest of the backend writes
\* the output workbook
BackendAirport(t) ==
    /\ calls[t].pc = "airport"
    /\ calls' = [calls EXCEPT ![t].ride_airport =
                                  SegmentAirport(SelectedBackend(calls[t].ride_type),
                                                 calls[t].all_people, Parser.cluster_by_time),
                              ![t].outcome = "written",
                              ![t].pc = "restore_excel"]
    /\ UNCHANGED Parser
    /\ MainFrame

\* line 78: Parser.process_excel = orig_process_excel
FinallyProcessExcel(t) ==
    /\ calls[t].pc = "restore_excel"
    /\ Parser' = RestoreProcessExcel(Parser, calls[t])
    /\ calls' = [calls EXCEPT ![t].pc = "restore_cluster"]
    /\ MainFrame

\* line 79: Parser._cluster_by_time = orig_cluster_func; then the function
\* returns, or the exception of the try block propagates
FinallyClusterByTime(t) ==
    /\ calls[t].pc = "restore_cluster"
    /\ Parser' = RestoreClusterByTime(Parser, calls[t])
    /\ calls' = [calls EXCEPT ![t].pc = IF calls[t].outcome = "written"
                                        THEN "returned" ELSE "raised"]
    /\ MainFrame

NextMain ==
    \/ Invoke(1, MaxCalls, RideTypes)
    \/ SaveProcessExcel(1)
    \/ PatchProcessExcel(1)
    \/ SaveClusterByTime(1)
    \/ PatchClusterByTime(1)
    \/ EnterBackend(1)
    \/ BackendParse(1)
    \/ BackendHotel(1)
    \/ BackendAirport(1)
    \/ FinallyProcessExcel(1)
    \/ FinallyClusterByTime(1)

SpecMain == InitMain /\ [][NextMain]_vars

\* the ride types of the overlapping calls: one the frontend offers and two
\* the function knows
OverlapRideTypes == {"go-live", "Go-Live", "Cabpool"}

NextOverlap ==
    \E t \in Threads :
        \/ Invoke(t, 1, OverlapRideTypes)
        \/ SaveProcessExcel(t)
        \/ PatchProcessExcel(t)
        \/ SaveClusterByTime(t)
        \/ PatchClusterByTime(t)
        \/ EnterBackend(t)
        \/ BackendParse(t)
        \/ BackendHotel(t)
        \/ BackendAirport(t)
        \/ FinallyProcessExcel(t)
        \/ FinallyClusterByTime(t)

SpecOverlap == InitMain /\ [][NextOverlap]_vars

----------------------------------------------------------------------------
(* Properties of _assign_with_app_preference, checked under SpecPack *)

CeilDiv(n, d) == (n + d - 1) \div d

GroupsOfSize(units, sizes) == Cardinality({g \in 1..Len(units) : Len(units[g]) \in sizes})

\* C1: the returned groups partition the input: every input traveler sits in
\* exactly one seat of exactly one group, and every seat holds an input traveler.
C1_PackPartition ==
    pc = "packed" =>
        /\ \A g \in 1..Len(cab_units) : Range(cab_units[g]) \subseteq Range(people)
        /\ \A p \in Range(people) :
               Cardinality({g \in 1..Len(cab_units) : p \in Range(cab_units[g])}) = 1
        /\ \A g \in 1..Len(cab_units) :
               Cardinality(Range(cab_units[g])) = Len(cab_units[g])

C1_Witness ==
    /\ pc = "packed"
    /\ Len(people) > Capacity
    /\ \E g \in 1..Len(cab_units) :
          /\ Len(cab_units[g]) = 3
          /\ Cardinality({cab_units[g][i].app : i \in 1..3}) = 2

\* C3: bin-packing never produces more groups of 2 or more occupants than
\* ceil(n/3), the minimum number of capacity-3 vehicles for n travelers.
C3_VehicleMinimality ==
    pc = "packed" =>
        GroupsOfSize(cab_units, 2..Len(people)) <= CeilDiv(Len(people), Capacity)

\* C4: a cohort of n >= 1 travelers sharing one affiliation is packed into
\* ceil(n/3) groups of 2 or more and no 1-occupant group when n mod 3 is 0 or 2,
\* and into floor(n/3) groups of 3 plus exactly one 1-occupant group when
\* n mod 3 is 1.
SingleAffiliation(ps) == \A i, j \in 1..Len(ps) : ps[i].app = ps[j].app

C4_SingleAffiliation ==
    (pc = "packed" /\ Len(people) >= 1 /\ SingleAffiliation(people)) =>
        LET n == Len(people)
        IN  IF n % 3 \in {0, 2}
            THEN /\ GroupsOfSize(cab_units, 2..Len(people)) = CeilDiv(n, 3)
                 /\ GroupsOfSize(cab_units, {1}) = 0
            ELSE /\ GroupsOfSize(cab_units, {3}) = n \div 3
                 /\ GroupsOfSize(cab_units, {1}) = 1
                 /\ Len(cab_units) = (n \div 3) + 1

C4_Witness ==
    /\ pc = "packed"
    /\ Len(people) > Capacity
    /\ Len(people) % 3 = 1
    /\ SingleAffiliation(people)
    /\ GroupsOfSize(cab_units, {1}) = 1

\* C22: for every cohort, of any size and affiliation mix, bin-packing
\* returns at most one group with exactly 1 occupant, so at most one traveler
\* of the cohort is left without a cab.
C22_OneStranded ==
    pc = "packed" => GroupsOfSize(cab_units, {1}) <= 1

\* four leftover singles of four affiliations: a mixed group of 3 and one
\* group of 1
C22_Witness ==
    /\ pc = "packed"
    /\ Len(people) > Capacity
    /\ GroupsOfSize(cab_units, {1}) = 1
    /\ \E g \in 1..Len(cab_units) :
          /\ Len(cab_units[g]) = 3
          /\ Cardinality({cab_units[g][i].app : i \in 1..3}) = 3

----------------------------------------------------------------------------
(* Properties of Parser._cluster_by_time, checked under SpecCluster *)

\* C9: any two timestamped travelers of one output cluster have timestamps
\* that differ by at most the threshold.
C9_ClusterDiameter ==
    pc = "clustered" =>
        \A c \in 1..Len(clusters) :
            \A t1, t2 \in times_list(clusters[c], attribute) :
                WithinThresh(Abs(t1 - t2), threshold)

C9_Witness ==
    /\ pc = "clustered"
    /\ threshold.min = 30
    /\ Len(clusters) = 2
    /\ \E c \in 1..Len(clusters) :
          /\ Len(clusters[c]) = 3
          /\ Cardinality(times_list(clusters[c], attribute)) = 3

----------------------------------------------------------------------------
(* Properties of cabpool's identifiers, checked under SpecCabpool *)

\* the cab ids of a returned mapping, in the order they were issued
IssuedIds(assignments) ==
    LET cabs == Flatten([g \in 1..Len(assignments) |-> assignments[g].cab_map])
    IN  [c \in 1..Len(cabs) |-> cabs[c].cab_id]

\* the declared sequences of identifiers
HotelSequence ==
    <<<<"0", "1">>, <<"0", "2">>, <<"0", "3">>, <<"0", "4">>, <<"0", "5">>, <<"0", "6">>,
      <<"0", "7">>, <<"0", "8">>, <<"0", "9">>, <<"1", "0">>, <<"1", "1">>, <<"1", "2">>>>

SupportSequence ==
    <<<<"1", "0", "0">>, <<"1", "0", "1">>, <<"1", "0", "2">>, <<"1", "0", "3">>,
      <<"1", "0", "4">>, <<"1", "0", "5">>, <<"1", "0", "6">>, <<"1", "0", "7">>,
      <<"1", "0", "8">>, <<"1", "0", "9">>, <<"1", "1", "0">>, <<"1", "1", "1">>>>

AirportSequence ==
    <<<<"A">>, <<"B">>, <<"C">>, <<"D">>, <<"E">>, <<"F">>, <<"G">>, <<"H">>, <<"I">>,
      <<"J">>, <<"K">>, <<"L">>>>

IsPrefix(ids, sequence) == ids = SubSeq(sequence, 1, Len(ids))

Distinct(ids) == Cardinality(Range(ids)) = Len(ids)

\* C5: within one run the k-th identifier issued for a segment type is the
\* k-th element of that type's declared sequence, and no identifier is issued
\* twice.
C5_IdentifierSequence ==
    (pc = "done" /\ mode = "cabpool") =>
        /\ IsPrefix(IssuedIds(hotel_assignments), HotelSequence)
        /\ IsPrefix(IssuedIds(support_assignments), SupportSequence)
        /\ IsPrefix(IssuedIds(airport_assignments), AirportSequence)
        /\ Distinct(IssuedIds(hotel_assignments))
        /\ Distinct(IssuedIds(support_assignments))
        /\ Distinct(IssuedIds(airport_assignments))

\* C6: in every run of a process the first identifier issued for a segment
\* type is the first element of its sequence: "01", "100", "A".
C6_FreshCounters ==
    (pc = "done" /\ mode = "cabpool") =>
        /\ IssuedIds(hotel_assignments) # <<>> =>
               IssuedIds(hotel_assignments)[1] = <<"0", "1">>
        /\ IssuedIds(support_assignments) # <<>> =>
               IssuedIds(support_assignments)[1] = <<"1", "0", "0">>
        /\ IssuedIds(airport_assignments) # <<>> =>
               IssuedIds(airport_assignments)[1] = <<"A">>

\* the sub-cabs packing makes of the cohorts of a grouping, as <<cohort, sub-cab>>
SubCabs(ride) ==
    {q \in (1..Len(ride)) \X (1..MaxRoster + 1) :
        q[2] <= Len(assign_with_app_preference(ride[q[1]].people))}

SubCab(ride, q) == assign_with_app_preference(ride[q[1]].people)[q[2]]

CabsOfTwoOrMore(ride) == Cardinality({q \in SubCabs(ride) : Len(SubCab(ride, q)) >= 2})

\* the travelers left in a sub-cab of fewer than 2 riders
LoneRiders(ride) ==
    UNION {Range(SubCab(ride, q)) : q \in {r \in SubCabs(ride) : Len(SubCab(ride, r)) < 2}}

InSomeCab(assignments, p) ==
    \E g \in 1..Len(assignments) : \E c \in 1..Len(assignments[g].cab_map) :
        p \in Range(assignments[g].cab_map[c].riders)

SheetRow(rows, name) == rows[CHOOSE i \in 1..Len(rows) : rows[i].name = name]

\* C7: a packed group of fewer than 2 riders consumes no identifier: each
\* _assign_cabs call advances its counter by the number of groups of 2 or more
\* only, the ids it issues are consecutive from the counter's value at the call
\* (no gaps), a lone rider is in no cab of the returned mapping and the sheet
\* shows a blank label for that segment.
C7_LoneRiderNoIdentifier ==
    [][(pc = "segmented" /\ mode = "cabpool" /\ pc' = "done") =>
          /\ next_cab'.hotel = next_cab.hotel + CabsOfTwoOrMore(ride_hotel)
          /\ next_cab'.support = next_cab.support + CabsOfTwoOrMore(ride_support)
          /\ next_cab'.airport = next_cab.airport + CabsOfTwoOrMore(ride_airport)
          /\ IssuedIds(hotel_assignments') =
                 [k \in 1..CabsOfTwoOrMore(ride_hotel) |-> ZeroPadded(next_cab.hotel + k, 2)]
          /\ IssuedIds(support_assignments') =
                 [k \in 1..CabsOfTwoOrMore(ride_support) |->
                     ZeroPadded(100 + next_cab.support + k - 1, 3)]
          /\ IssuedIds(airport_assignments') =
                 [k \in 1..CabsOfTwoOrMore(ride_airport) |->
                     generate_airport_cab_id(next_cab.airport + k - 1)]
          /\ \A p \in LoneRiders(ride_hotel) :
                 ~InSomeCab(hotel_assignments', p) /\ SheetRow(sheet', p.name).hotel = <<>>
          /\ \A p \in LoneRiders(ride_support) :
                 ~InSomeCab(support_assignments', p) /\ SheetRow(sheet', p.name).support = <<>>
          /\ \A p \in LoneRiders(ride_airport) :
                 ~InSomeCab(airport_assignments', p) /\ SheetRow(sheet', p.name).airport = <<>>
      ]_vars

\* a second run in which a hotel cohort of four is packed into a cab of three
\* and a lone rider, and a support cohort is a single traveler
C7_Witness ==
    /\ pc = "done"
    /\ mode = "cabpool"
    /\ runs = 2
    /\ next_cab.hotel >= 2
    /\ \E p \in LoneRiders(ride_hotel) :
          /\ Len(all_people) = 4
          /\ SheetRow(sheet, p.name).hotel = <<>>
          /\ \E q \in Range(all_people) : SheetRow(sheet, q.name).hotel = <<"Cab ", "0", "2">>
    /\ LoneRiders(ride_airport) # {}

----------------------------------------------------------------------------
(* Properties of the three backends, checked under Spec *)

AllCabs(assignments) == Flatten([g \in 1..Len(assignments) |-> assignments[g].cab_map])

AllCars(assignments) == Flatten([g \in 1..Len(assignments) |-> assignments[g].cars])

Segments == <<hotel_assignments, support_assignments, airport_assignments>>

Rides == <<ride_hotel, ride_support, ride_airport>>

DriverModes == {"team trip", "go-live"}

\* C2: no vehicle unit holds more than 3 occupants: in cabpool every packed
\* group and every cab has at most 3 travelers; in team trip after the
\* round-robin, and in go-live after the round-robin and after the backfill,
\* every driver has at most 2 passengers and is not one of them.
C2_CapacityBound ==
    /\ (mode = "cabpool" /\ pc \in {"segmented", "done"}) =>
           \A k \in 1..3 : \A q \in SubCabs(Rides[k]) : Len(SubCab(Rides[k], q)) <= 3
    /\ (mode = "cabpool" /\ pc = "done") =>
           \A k \in 1..3 : \A cab \in Range(AllCabs(Segments[k])) : Len(cab.riders) <= 3
    /\ (mode \in DriverModes /\ pc \in {"assigned", "done"}) =>
           \A k \in 1..3 : \A car \in Range(AllCars(Segments[k])) :
               /\ Len(car.passengers) <= 2
               /\ car.driver \notin Range(car.passengers)

\* go-live after the backfill: a support car is full and a traveler who fits
\* its driver is still without a ride
C2_Witness ==
    /\ mode = "go-live"
    /\ pc = "done"
    /\ \E car \in Range(AllCars(support_assignments)) :
          /\ Len(car.passengers) = 2
          /\ \E i \in 1..Len(unassigned_support) : Fits(unassigned_support[i], car.driver)

\* C8: a special traveler (affiliation ID or IE, or a name containing
\* 'emeritus' or 'exemplar') never shares a vehicle unit: no cab of 2 or more
\* riders holds one, no special driver carries a passenger and no passenger is
\* special, after every pass of every mode.
C8_SpecialsApart ==
    /\ (mode = "cabpool" /\ pc = "done") =>
           \A k \in 1..3 : \A cab \in Range(AllCabs(Segments[k])) :
               Len(cab.riders) >= 2 => \A p \in Range(cab.riders) : ~special(p)
    /\ (mode \in DriverModes /\ pc \in {"assigned", "done"}) =>
           \A k \in 1..3 : \A car \in Range(AllCars(Segments[k])) :
               /\ special(car.driver) => car.passengers = <<>>
               /\ \A p \in Range(car.passengers) : ~special(p)

----------------------------------------------------------------------------
(* Properties of the round-robin seating, checked under Spec               *)

\* the segments whose mapping is what the round-robin returned: all three
\* after go-live's seating step, hotel and airport once a run is done
RoundRobinSegments ==
    IF mode = "go-live" /\ pc = "assigned" THEN {1, 2, 3}
    ELSE IF mode \in DriverModes /\ pc = "done" THEN {1, 3}
    ELSE {}

\* the driver test of the round-robin of the running mode
IsDriver(p) ==
    IF mode = "team trip" THEN p.has_rental_car
    ELSE p.has_rental_car \/ p.given_rental_car

Seats(cars, p) ==
    {q \in (1..Len(cars)) \X (1..max_passengers) :
        q[2] <= Len(cars[q[1]].passengers) /\ cars[q[1]].passengers[q[2]] = p}

SeatedCount(cars) == Len(Flatten([c \in 1..Len(cars) |-> cars[c].passengers]))

----------------------------------------------------------------------------
(* Property of one step of the round-robin, checked under SpecSeat         *)

\* position of driver c in the cyclic scan that starts at the cursor
ScanOffset(c, cursor, n) == (c - 1 - cursor + n) % n

\* C19: when a passenger is processed and a driver of the passenger's
\* affiliation has fewer than 2 passengers, the passenger is appended to the
\* first such driver in cyclic order from the cursor; otherwise to the first
\* driver with fewer than 2 passengers, if there is one; the cursor becomes the
\* index just past the filled driver (mod the number of drivers), and nothing
\* else changes.
C19_SameAffiliationFirst ==
    [][(pc = "seating" /\ rr_next' = rr_next + 1) =>
          LET p       == rr_passengers[rr_next + 1]
              n       == Len(rr_drivers)
              cars    == rr_state.cars
              Open(c) == Len(cars[c].passengers) < 2
              Same(c) == Open(c) /\ cars[c].driver.app = p.app
              Off(c)  == ScanOffset(c, rr_state.driver_index, n)
          IN  IF \E c \in 1..n : Open(c)
              THEN \E d \in 1..n :
                      /\ Open(d)
                      /\ IF \E c \in 1..n : Same(c)
                         THEN Same(d) /\ \A c \in 1..n : Same(c) => Off(d) <= Off(c)
                         ELSE \A c \in 1..n : Open(c) => Off(d) <= Off(c)
                      /\ rr_state'.cars =
                             [cars EXCEPT ![d].passengers = Append(@, p)]
                      /\ rr_state'.driver_index = d % n
              ELSE rr_state' = rr_state
      ]_vars

\* drivers of affiliations Y and X: the X passenger went past the open Y
\* driver to the X driver and the cursor wrapped to 0, then the Z passenger,
\* with no driver of its affiliation, went to the Y driver
C19_Witness ==
    /\ pc = "seating"
    /\ rr_next = 2
    /\ Len(rr_drivers) = 2
    /\ rr_drivers[1].app = "Y"
    /\ rr_state.cars[2].passengers = <<rr_passengers[1]>>
    /\ rr_passengers[1].app = "X"
    /\ rr_state.cars[1].passengers = <<rr_passengers[2]>>
    /\ rr_passengers[2].app = "Z"
    /\ rr_state.driver_index = 1

\* every driver and every passenger candidate of the cohort has one affiliation
OneAffiliation ==
    \A p, q \in Range(rr_drivers) \cup Range(rr_passengers) : p.app = q.app

\* C26: when every driver and every passenger of a cohort share one
\* affiliation, after any number of passengers has been processed the
\* passenger counts of any two drivers of the cohort differ by at most 1.
C26_RoundRobinBalance ==
    (pc = "seating" /\ OneAffiliation) =>
        \A c, d \in 1..Len(rr_state.cars) :
            Len(rr_state.cars[c].passengers) - Len(rr_state.cars[d].passengers) <= 1

\* two drivers and two passengers of one affiliation, both passengers
\* processed: one passenger in each car
C26_Witness ==
    /\ pc = "seating"
    /\ OneAffiliation
    /\ Len(rr_drivers) = 2
    /\ rr_next = 2
    /\ \A c \in 1..2 : Len(rr_state.cars[c].passengers) = 1

----------------------------------------------------------------------------
(* Property of Parser.ride_to_support, checked under Spec                  *)

SameSupportCohort(p, q) ==
    \E g \in 1..Len(ride_support) :
        p \in Range(ride_support[g].people) /\ q \in Range(ride_support[g].people)

\* C13: two non-special travelers are in the same to-support cohort if and
\* only if they agree on role, affiliation, hotel, location, begin-on-site
\* timestamp and end-on-site timestamp.
C13_SupportCohortKey ==
    (mode \in {"cabpool", "go-live"} /\ pc \in {"segmented", "assigned", "done"}) =>
        \A p, q \in Range(all_people) :
            (~special(p) /\ ~special(q)) =>
                (SameSupportCohort(p, q) <=>
                    /\ p.role = q.role
                    /\ p.app = q.app
                    /\ p.hotel = q.hotel
                    /\ p.location = q.location
                    /\ p.begin_onsite = q.begin_onsite
                    /\ p.end_onsite = q.end_onsite)

----------------------------------------------------------------------------
(* Properties of cabpool._assign_cabs, checked under SpecAssign            *)

\* C15: for every input grouping, an empty one and one without a group of 2
\* or more riders included, _assign_cabs with an id_type other than hotel,
\* support or airport raises, returns no assignment map and leaves the three
\* counters as they were.
C15_UnknownSelectorFatal ==
    (pc = "returned" /\ cab_id_type \notin {"hotel", "support", "airport"}) =>
        /\ cab_returned.raised
        /\ cab_returned.assignments = <<>>
        /\ next_cab = ImportedCounters

\* C18: for every max_per_cab >= 2 and every input grouping, no cab of the
\* returned assignment holds more than max_per_cab riders.
C18_CapacityParameter ==
    (pc = "returned" /\ ~cab_returned.raised) =>
        \A cab \in Range(AllCabs(cab_returned.assignments)) : Len(cab.riders) <= max_per_cab

----------------------------------------------------------------------------
(* Properties of the segmentation, checked under SpecSegment               *)

CohortsOf(ride, p) == {g \in 1..Len(ride) : p \in Range(ride[g].people)}

\* groups_noTime["Potential Night Shift"]
NightShiftBucket == GroupPeople(no_time_groups, Key(<<"Potential Night Shift">>, <<>>))

\* without a personal airport ride and with an on-site end before 11:00
EndsBeforeCutoff(p) == ~p.personal.Airport /\ p.end_onsite.t < cutoff

\* C14: a traveler whose on-site end clock time is before 11:00 is in no
\* to-airport cohort that ride_to_airport returns, and the 'Potential Night
\* Shift' bucket holds exactly the non-personal travelers whose end time is
\* before 11:00.
C14_NightShiftBucket ==
    (mode = "parser" /\ pc = "segmented") =>
        /\ \A p \in Range(all_people) :
               p.end_onsite.t < cutoff => CohortsOf(ride_airport, p) = {}
        /\ Range(NightShiftBucket) = {p \in Range(all_people) : EndsBeforeCutoff(p)}

\* a date or time field of the traveler holds the sentinel datetime.min
HoldsSentinel(p) ==
    datetime_min \in {p.begin_onsite, p.end_onsite, p.depart_date, p.return_date}

\* C16: a traveler without a personal-ride override who has an unparsable
\* date field is in exactly one cohort of the to-hotel, of the to-support and
\* of the to-airport segmentation.
C16_SentinelStaysSegmented ==
    (mode = "parser" /\ pc = "segmented") =>
        \A p \in Range(all_people) :
            (HoldsSentinel(p) /\ ~p.personal.Hotel /\ ~p.personal.Airport) =>
                /\ Cardinality(CohortsOf(ride_hotel, p)) = 1
                /\ Cardinality(CohortsOf(ride_support, p)) = 1
                /\ Cardinality(CohortsOf(ride_airport, p)) = 1

----------------------------------------------------------------------------
(* Property of the segmentation, checked under SpecKeep                    *)

\* the number of places the traveler takes in the groups of a returned mapping
PlacesIn(ride, p) ==
    Cardinality({q \in (1..Len(ride)) \X (1..MaxRoster + 1) :
                    /\ q[2] <= Len(ride[q[1]].people)
                    /\ ride[q[1]].people[q[2]] = p})

\* the number of rows of the roster that are this traveler
RowsOf(p) == Cardinality({i \in 1..Len(all_people) : all_people[i] = p})

\* C23: each traveler without a personal hotel override passed to
\* ride_to_hotel appears in exactly one returned group, and each traveler
\* without a personal airport override and with an end time at or after 11:00
\* passed to ride_to_airport appears in exactly one returned group (no cluster
\* overwrites another of the same 'key | start-end' name).
C23_SegmentationKeeps ==
    /\ pc \in {"hotel", "support", "segmented"} =>
           \A p \in Range(all_people) :
               ~p.personal.Hotel => PlacesIn(ride_hotel, p) = RowsOf(p)
    /\ pc = "segmented" =>
           \A p \in Range(all_people) :
               (~p.personal.Airport /\ p.end_onsite.t >= cutoff) =>
                   PlacesIn(ride_airport, p) = RowsOf(p)

----------------------------------------------------------------------------
(* Properties of the driver-based backends, checked under SpecDrivers      *)

\* owns-vehicle or auto-granted-vehicle
HasVehicle(p) == p.has_rental_car \/ p.given_rental_car

\* C12: in team trip and in go-live a traveler is a driver exactly when
\* has_rental_car or given_rental_car is true: the entries of a cohort's
\* mapping are the cohort's travelers with either flag, and no traveler with
\* either flag is in a passenger list.
C12_DriverDefinition ==
    (mode \in DriverModes /\ pc \in {"assigned", "done"}) =>
        \A k \in 1..3 : \A g \in 1..Len(Segments[k]) :
            LET cars == Segments[k][g].cars
            IN  /\ [c \in 1..Len(cars) |-> cars[c].driver] =
                       SelectSeq(Rides[k][g].people, HasVehicle)
                /\ \A c \in 1..Len(cars) : \A p \in Range(cars[c].passengers) :
                       ~HasVehicle(p)

\* p is in the passenger list of some car of the mapping
SeatedIn(assignments, p) ==
    \E car \in Range(AllCars(assignments)) : p \in Range(car.passengers)

\* same location and hotel, same on-site start and end clock times, and an
\* on-site window inside the driver's
MatchesDriver(p, driver) ==
    /\ p.location = driver.location
    /\ p.hotel = driver.hotel
    /\ p.begin_onsite.t = driver.begin_onsite.t
    /\ p.end_onsite.t = driver.end_onsite.t
    /\ Timestamp(p.begin_onsite) >= Timestamp(driver.begin_onsite)
    /\ Timestamp(p.end_onsite) <= Timestamp(driver.end_onsite)

\* C17: the backfill only appends to passenger lists, and every passenger it
\* appends to a driver (a) had no vehicle and no to-support seat after the
\* round-robin, (b) matches the driver (location, hotel, clock times, window
\* inside the driver's), (c) joins a driver who is not special and had fewer
\* than 2 passengers at that moment, and (d) leaves the pool and is appended
\* to no other driver.
C17_BackfillEligibility ==
    [][(mode = "go-live" /\ pc = "assigned" /\ pc' = "done") =>
          /\ Len(support_assignments') = Len(support_assignments)
          /\ \A g \in 1..Len(support_assignments) :
                 /\ Len(support_assignments'[g].cars) = Len(support_assignments[g].cars)
                 /\ \A c \in 1..Len(support_assignments[g].cars) :
                        LET before == support_assignments[g].cars[c]
                            after  == support_assignments'[g].cars[c]
                            old    == Len(before.passengers)
                        IN  /\ after.driver = before.driver
                            /\ Len(after.passengers) >= old
                            /\ SubSeq(after.passengers, 1, old) = before.passengers
                            /\ \A i \in (old + 1)..Len(after.passengers) :
                                   LET p == after.passengers[i]
                                   IN  /\ ~HasVehicle(p)
                                       /\ ~SeatedIn(support_assignments, p)
                                       /\ MatchesDriver(p, before.driver)
                                       /\ ~special(before.driver)
                                       /\ i - 1 < 2
                                       /\ p \notin Range(unassigned_support')
          /\ \A p \in Range(all_people) :
                 Len(SelectSeq(Flatten([c \in 1..Len(AllCars(support_assignments')) |->
                                           AllCars(support_assignments')[c].passengers]),
                               LAMBDA q : q = p)) <= 1
      ]_vars

\* the backfill gave a driver a passenger whose first day on site is later
\* than the driver's, while a special driver and a driver of another location
\* got nobody
C17_Witness ==
    /\ mode = "go-live"
    /\ pc = "done"
    /\ \E car \in Range(AllCars(support_assignments)) :
          \E p \in Range(car.passengers) : p.begin_onsite.d > car.driver.begin_onsite.d
    /\ \E car \in Range(AllCars(support_assignments)) :
          special(car.driver) /\ car.passengers = <<>>
    /\ \E car \in Range(AllCars(support_assignments)) :
          car.driver.given_rental_car /\ car.passengers = <<>>

\* C20: when the backfill has finished there is no driver and pool member
\* such that the driver is not special, has fewer than 2 passengers and the
\* pool member matches the driver.
C20_BackfillExhaustive ==
    (mode = "go-live" /\ pc = "done") =>
        \A car \in Range(AllCars(support_assignments)) :
            \A p \in Range(unassigned_support) :
                ~(/\ ~special(car.driver)
                  /\ Len(car.passengers) < 2
                  /\ MatchesDriver(p, car.driver))

\* the backfill gave a driver two passengers of a later first day and a third
\* such traveler is still in the pool
C20_Witness ==
    /\ mode = "go-live"
    /\ pc = "done"
    /\ \E car \in Range(AllCars(support_assignments)) :
          /\ Len(car.passengers) = 2
          /\ \A p \in Range(car.passengers) : p.begin_onsite.d > car.driver.begin_onsite.d
          /\ \E p \in Range(unassigned_support) : MatchesDriver(p, car.driver)

----------------------------------------------------------------------------
(* Property of the clustering of travelers without a parsed flight,        *)
(* checked under SpecCluster                                               *)

\* the flight field the attribute is computed from did not parse
UnknownTimed(p, attr) ==
    IF attr = "arrival_dt" THEN p.arrival_flight.FlightNumber = "NoFlightNum"
    ELSE p.return_flight.FlightNumber = "NoFlightNum"

\* C10: a traveler whose flight field is missing or malformed is alone in
\* the cluster the clustering step puts them in, whatever the threshold and
\* however many such travelers the cohort has.
C10_UnknownIsolated ==
    pc = "clustered" =>
        \A c \in 1..Len(clusters) :
            (\E i \in 1..Len(clusters[c]) : UnknownTimed(clusters[c][i], attribute)) =>
                Len(clusters[c]) = 1

----------------------------------------------------------------------------
(* Properties of main.process_carpool_assignment, checked under SpecMain   *)
(* and SpecOverlap                                                         *)

\* the invocation has returned or raised
Finished(call) == call.pc \in {"returned", "raised"}

\* what the backend gets from the Parser when the call's own overrides sit
\* directly on the original functions
OwnPeople(call) ==
    CallProcessExcel(patched_process_excel(call.hotel_groups, orig_process_excel),
                     call.input_file)

OwnCluster(call) ==
    patched_cluster(call.hotel_window_min, call.airport_window_min, orig_cluster_func)

UsesOwnSettings(call) ==
    /\ call.all_people = OwnPeople(call)
    /\ call.ride_hotel =
           SegmentHotel(SelectedBackend(call.ride_type), OwnPeople(call), OwnCluster(call))
    /\ call.ride_airport =
           SegmentAirport(SelectedBackend(call.ride_type), OwnPeople(call), OwnCluster(call))

\* C21: after process_carpool_assignment has returned or raised (the backend
\* raised, or the ride type is unknown), Parser.process_excel and
\* Parser._cluster_by_time are the functions they were before the call, and a
\* later call merges hotels and clusters by its own settings only.
C21_OverridesTemporary ==
    Finished(calls[1]) =>
        /\ Parser = ImportedParser
        /\ calls[1].outcome = "written" => UsesOwnSettings(calls[1])

\* a second call with the default settings has written its output after a
\* first call that ran a backend with merged hotels and wider windows
C21_Witness ==
    /\ Finished(calls[1])
    /\ calls[1].count = 2
    /\ calls[1].outcome = "written"
    /\ calls[1].hotel_groups = <<>>
    /\ calls[1].hotel_window_min = 30
    /\ calls[1].previous[1].ride_type \in KnownRideTypes
    /\ calls[1].previous[1].input_file.readable
    /\ calls[1].previous[1].hotel_groups = <<<<"H1", "H2">>>>
    /\ calls[1].previous[1].hotel_window_min = 60

\* C24: for each ride type the frontend's selectbox offers,
\* process_carpool_assignment dispatches to the backend of that name and does
\* not end in the 'Unknown ride type' error.
C24_UiRideTypesAccepted ==
    \A t \in Threads :
        (Finished(calls[t]) /\ calls[t].ride_type \in UiRideTypes) =>
            /\ SelectedBackend(calls[t].ride_type) = calls[t].ride_type
            /\ calls[t].outcome # UnknownRideType

\* C25: when two invocations overlap, under every interleaving of their
\* steps each one that runs a backend merges hotels and clusters by its own
\* settings, and once both have finished Parser.process_excel and
\* Parser._cluster_by_time are the original functions.
C25_OverlapNoLeak ==
    /\ \A t \in Threads :
           (Finished(calls[t]) /\ calls[t].outcome = "written") => UsesOwnSettings(calls[t])
    /\ (\A t \in Threads : Finished(calls[t])) => Parser = ImportedParser

====
